---- MODULE Spec2Model ----
(***************************************************************************)
(* A model of the uddin-lang tree-walking interpreter: the scope stack,   *)
(* closures, control-flow unwinding (panic/recover), try/catch, loops,    *)
(* the logical operators, and the tokenizer/parser path of assignment     *)
(* statements.                                                             *)
(*                                                                         *)
(* The interpreter's recursive Go functions (evaluate, executeStatement,  *)
(* executeBlock, callFunction, userFunction.call ...) are RECURSIVE        *)
(* operators over an interpreter-state record.  A Go panic in flight is    *)
(* the field `panic` of that record; a `recover()` is a test of it.        *)
(***************************************************************************)
EXTENDS Integers, Sequences, FiniteSets, TLC

VARIABLES
    input,      \* what the host hands to the driver: a Program or a source text
    config,     \* Config (IsUnitTest)
    pc,         \* position of the driver: "parse", "run", "recover", "return",
                \* "done" (Execute or a failed parse has returned), "exited" once
                \* os.Exit has ended the process, "returned" or "panicked" after
                \* RunProgram, "tokens" for a caller of the tokenizer alone
    prog,       \* the parsed Program (a Block), or <<>> before/without a parse
    idx,        \* index of the next top-level statement in interp.execute's loop
    interp,     \* the interpreter struct (vars, stdout, stats, heap of maps/arrays)
    err,        \* the error Execute / ParseProgram returned
    tokenizer,  \* a Tokenizer a caller of Next holds (input, offset, ch, errorMsg)
    returned,   \* the token the last call of Tokenizer.Next returned
    result      \* what RunProgram returned: (ok, console)

vars == <<input, config, pc, prog, idx, interp, err, tokenizer, returned, result>>

\* Let(e, LAMBDA x : b) is b with x bound to the value of e
Let(v, F(_)) == F(v)

(***************************************************************************)
(* Values (type Value any).                                                *)
(***************************************************************************)
NullV == [t |-> "null"]
BoolV(b) == [t |-> "bool", b |-> b]
IntV(i) == [t |-> "int", i |-> i]
StrV(s) == [t |-> "str", s |-> s]
\* float64 values are kept as the exact quotient num/den of two integers
FloatV(num, den) == [t |-> "float", num |-> num, den |-> den]
\* *[]Value: a pointer into the heap of arrays
ArrayV(ref) == [t |-> "array", ref |-> ref]
\* map[string]Value: a reference to a map on the heap
ObjectV(ref) == [t |-> "object", ref |-> ref]
\* *userFunction; Closure is a reference (index) to a scope map
UserFunction(name, params, ellipsis, body, closure) ==
    [t |-> "fun", Name |-> name, Parameters |-> params, Ellipsis |-> ellipsis,
     Body |-> body, Closure |-> closure]
BuiltinFunction(name) == [t |-> "builtin", Name |-> name]

(***************************************************************************)
(* AST nodes (ast.go).  Positions are left out: the position of a node is  *)
(* the position of a token of the source (TokenPosition).                  *)
(***************************************************************************)
Literal(v) == [n |-> "Literal", Value |-> v]
Variable(name) == [n |-> "Variable", Name |-> name]
Binary(l, op, r) == [n |-> "Binary", Left |-> l, Operator |-> op, Right |-> r]
Unary(op, e) == [n |-> "Unary", Operator |-> op, Operand |-> e]
Ternary(c, a, b) == [n |-> "Ternary", Condition |-> c, TrueExpr |-> a, FalseExpr |-> b]
Call(f, args) == [n |-> "Call", Function |-> f, Arguments |-> args, Ellipsis |-> FALSE]
List(vs) == [n |-> "List", Values |-> vs]
Subscript(c, s) == [n |-> "Subscript", Container |-> c, Subscript |-> s]
\* Map items are <<key expression, value expression>> pairs
Map(items) == [n |-> "Map", Items |-> items]
FunctionExpression(params, body) ==
    [n |-> "FunctionExpression", Parameters |-> params, Ellipsis |-> FALSE, Body |-> body]

Assign(target, value) == [n |-> "Assign", Target |-> target, Value |-> value]
If(c, body, else) == [n |-> "If", Condition |-> c, Body |-> body, Else |-> else]
While(c, body) == [n |-> "While", Condition |-> c, Body |-> body]
For(name, it, body) == [n |-> "For", Name |-> name, Iterable |-> it, Body |-> body]
TryCatch(try, errVar, catch) ==
    [n |-> "TryCatch", TryBlock |-> try, ErrVar |-> errVar, CatchBlock |-> catch]
ExpressionStatement(e) == [n |-> "ExpressionStatement", Expression |-> e]
FunctionDefinition(name, params, body) ==
    [n |-> "FunctionDefinition", Name |-> name, Parameters |-> params, Ellipsis |-> FALSE,
     Body |-> body]
Return(e) == [n |-> "Return", Result |-> e]
Break == [n |-> "Break"]
Continue == [n |-> "Continue"]
Import(filename) == [n |-> "Import", Filename |-> filename]

(***************************************************************************)
(* Panics.  A Go panic value in flight, or NoPanic.                        *)
(***************************************************************************)
NoPanic == [k |-> "none"]
\* a nil error, and the parser's Error{Position, Message}
NilError == [k |-> "nil"]
Error(msg) == [k |-> "parse", msg |-> msg]
\* typeError / valueError / nameError / runtimeError (parser.go 1163-1252)
\* a Position: the zero Position{}, or the position of a token of the
\* source, whose line and column are left out
ZeroPosition == [inSource |-> FALSE]
TokenPosition == [inSource |-> TRUE]
\* an error raised at pos; its position is kept when it is Position{}
ErrorAt(e, pos) ==
    IF pos.inSource THEN e ELSE [k |-> e.k, cat |-> e.cat, msg |-> e.msg, pos |-> pos]
typeError(msg) == [k |-> "error", cat |-> "type", msg |-> msg]
valueError(msg) == [k |-> "error", cat |-> "value", msg |-> msg]
nameError(msg) == [k |-> "error", cat |-> "name", msg |-> msg]
runtimeError(msg) == [k |-> "error", cat |-> "runtime", msg |-> msg]
returnResult(v) == [k |-> "returnResult", value |-> v]
BreakException == [k |-> "BreakException"]
ContinueException == [k |-> "ContinueException"]
BreakString == [k |-> "__break__"]
\* os.Exit(code): the process ends; nothing recovers it and no defer runs
ProcessExit(code) == [k |-> "exit", code |-> code]

Panicking(st) == st.panic.k # "none"
Exited(st) == st.panic.k = "exit"
Raise(st, p) == [st EXCEPT !.panic = p]
Recovered(st) == [st EXCEPT !.panic = NoPanic]
Yield(st, v) == [st EXCEPT !.val = v]

\* e.Error() of a panic value that implements error
ErrorString(p) ==
    CASE p.k = "error" -> p.cat \o " error: " \o p.msg
      [] p.k = "parse" -> "parse error: " \o p.msg
      [] p.k = "BreakException" -> "break"
      [] p.k = "ContinueException" -> "continue"
      [] OTHER -> p.k

(***************************************************************************)
(* Scope stack (part_004 632-652).  interp.vars is a stack of references   *)
(* to maps; the maps live in st.maps so that a closure and the stack can   *)
(* share one map.                                                          *)
(***************************************************************************)
EmptyMap == [x \in {} |-> NullV]

MapSet(m, name, value) ==
    [x \in (DOMAIN m) \cup {name} |-> IF x = name THEN value ELSE m[x]]

\* make(map[string]Value): a fresh map on the heap; its reference is st.val
makeMap(st) == [st EXCEPT !.maps = Append(@, EmptyMap)]

pushScope(st, ref) == [st EXCEPT !.vars = Append(@, ref)]

popScope(st) == [st EXCEPT !.vars = SubSeq(@, 1, Len(@) - 1)]

\* interp.pushScope(make(map[string]Value))
pushNewScope(st) == pushScope(makeMap(st), Len(st.maps) + 1)

assign(st, name, value) ==
    LET top == st.vars[Len(st.vars)]
    IN [st EXCEPT !.maps[top] = MapSet(@, name, value)]

RECURSIVE lookupFrom(_, _, _)
lookupFrom(st, name, i) ==
    IF i = 0 THEN [ok |-> FALSE, v |-> NullV]
    ELSE IF name \in DOMAIN st.maps[st.vars[i]]
         THEN [ok |-> TRUE, v |-> st.maps[st.vars[i]][name]]
         ELSE lookupFrom(st, name, i - 1)

lookup(st, name) == lookupFrom(st, name, Len(st.vars))

(***************************************************************************)
(* Value helpers (part_002 522-543, functions.go 1879-1903).               *)
(***************************************************************************)
\* IsTruthy switches on []Value and map[string]Value; an array value of the
\* interpreter is a *[]Value and so falls to the default case.
IsTruthy(st, value) ==
    CASE value.t = "null" -> FALSE
      [] value.t = "object" -> DOMAIN st.maps[value.ref] # {}
      [] value.t = "bool" -> value.b
      [] value.t = "int" -> value.i # 0
      [] value.t = "float" -> value.num # 0
      [] value.t = "str" -> value.s # ""
      [] OTHER -> TRUE

typeName(v) ==
    CASE v.t = "null" -> "nullable"
      [] v.t = "bool" -> "boolean"
      [] v.t = "int" -> "integer"
      [] v.t = "float" -> "float"
      [] v.t = "str" -> "string"
      [] v.t = "array" -> "array"
      [] v.t = "object" -> "object"
      [] OTHER -> "function"

IsNumber(v) == v.t \in {"int", "float"}
Num(v) == IF v.t = "int" THEN v.i ELSE v.num
Den(v) == IF v.t = "int" THEN 1 ELSE v.den

(***************************************************************************)
(* Binary operators on values (part_004 111-419).  Each takes the state    *)
(* because + on arrays allocates; the result is left in st.val, an error   *)
(* in st.panic.                                                            *)
(***************************************************************************)
\* the outcome of evalEqual: "true", "false", or "uncomparable" when Go's ==
\* on two interface values panics (both hold a builtinFunction, a struct
\* with a func field)
EqualOutcome(b) == IF b THEN "true" ELSE "false"

\* `for k, v := range l` visits the keys in an order Go leaves open; KeyOrder
\* is one such order.  The outcome depends on the order only when one item
\* differs and another is uncomparable.
RECURSIVE KeyOrder(_)
KeyOrder(keys) ==
    IF keys = {} THEN <<>>
    ELSE LET k == CHOOSE x \in keys : TRUE IN <<k>> \o KeyOrder(keys \ {k})

RECURSIVE evalEqualSeq(_, _, _, _)
RECURSIVE evalEqualItems(_, _, _, _, _)
RECURSIVE evalEqualValue(_, _, _)
evalEqualValue(st, l, r) ==
    CASE l.t = "null" -> EqualOutcome(r.t = "null")
      [] l.t = "bool" -> EqualOutcome(r.t = "bool" /\ l.b = r.b)
      [] l.t \in {"int", "float"} ->
            EqualOutcome(IsNumber(r) /\ Num(l) * Den(r) = Num(r) * Den(l))
      [] l.t = "str" -> EqualOutcome(r.t = "str" /\ l.s = r.s)
      [] l.t = "array" ->
            IF r.t # "array" \/ Len(st.arrays[l.ref]) # Len(st.arrays[r.ref])
            THEN "false"
            ELSE evalEqualSeq(st, st.arrays[l.ref], st.arrays[r.ref], 1)
      [] l.t = "object" ->
            IF r.t # "object"
               \/ Cardinality(DOMAIN st.maps[l.ref]) # Cardinality(DOMAIN st.maps[r.ref])
            THEN "false"
            ELSE evalEqualItems(st, st.maps[l.ref], st.maps[r.ref],
                                KeyOrder(DOMAIN st.maps[l.ref]), 1)
      \* l == r on two functionType interface values: pointers to
      \* userFunction compare by identity, two builtinFunction structs panic
      [] l.t = "fun" -> EqualOutcome(r.t = "fun" /\ l = r)
      [] l.t = "builtin" -> IF r.t = "builtin" THEN "uncomparable" ELSE "false"
      [] OTHER -> "false"

evalEqualSeq(st, a, b, i) ==
    IF i > Len(a) THEN "true"
    ELSE Let(evalEqualValue(st, a[i], b[i]), LAMBDA e :
            IF e # "true" THEN e ELSE evalEqualSeq(st, a, b, i + 1))

\* r[k] of a key r does not have is nil
evalEqualItems(st, a, b, keys, i) ==
    IF i > Len(keys) THEN "true"
    ELSE Let(evalEqualValue(st, a[keys[i]],
                            IF keys[i] \in DOMAIN b THEN b[keys[i]] ELSE NullV), LAMBDA e :
            IF e # "true" THEN e ELSE evalEqualItems(st, a, b, keys, i + 1))

evalEqual(st, l, r) ==
    Let(evalEqualValue(st, l, r), LAMBDA e :
        IF e = "uncomparable"
        THEN Raise(st, [k |-> "error", cat |-> "go",
                        msg |-> "comparing uncomparable type interpreter.builtinFunction"])
        ELSE Yield(st, BoolV(e = "true")))

evalLess(st, l, r) ==
    IF IsNumber(l) /\ IsNumber(r)
    THEN Yield(st, BoolV(Num(l) * Den(r) < Num(r) * Den(l)))
    ELSE Raise(st, typeError("comparison requires two integers or two strings"))

evalPlus(st, l, r) ==
    CASE l.t = "int" /\ r.t = "int" -> Yield(st, IntV(l.i + r.i))
      [] IsNumber(l) /\ IsNumber(r) /\ ~(l.t = "int" /\ r.t = "int") ->
            Yield(st, FloatV(Num(l) * Den(r) + Num(r) * Den(l), Den(l) * Den(r)))
      [] l.t = "str" /\ r.t = "str" -> Yield(st, StrV(l.s \o r.s))
      [] l.t = "array" /\ r.t = "array" ->
            [st EXCEPT !.arrays = Append(@, st.arrays[l.ref] \o st.arrays[r.ref]),
                       !.val = ArrayV(Len(st.arrays) + 1)]
      [] OTHER -> Raise(st, typeError("+ requires two integers, strings, arrays, or objects"))

evalMinus(st, l, r) ==
    CASE l.t = "int" /\ r.t = "int" -> Yield(st, IntV(l.i - r.i))
      [] IsNumber(l) /\ IsNumber(r) /\ ~(l.t = "int" /\ r.t = "int") ->
            Yield(st, FloatV(Num(l) * Den(r) - Num(r) * Den(l), Den(l) * Den(r)))
      [] OTHER -> Raise(st, typeError("- requires two floats or integers"))

\* strings.Repeat(s, n) and the loop appending a n times, for n >= 0
RECURSIVE Repeat(_, _)
Repeat(s, n) == IF n <= 0 THEN "" ELSE s \o Repeat(s, n - 1)
RECURSIVE RepeatValues(_, _)
RepeatValues(a, n) == IF n <= 0 THEN <<>> ELSE a \o RepeatValues(a, n - 1)

\* int * array without a test of the sign: make([]Value, 0, len(*r)*l)
\* panics for a negative capacity, and the loop does not run for l <= 0
timesIntArray(st, l, r) ==
    IF Len(st.arrays[r.ref]) * l.i < 0
    THEN Raise(st, [k |-> "error", cat |-> "go", msg |-> "makeslice: cap out of range"])
    ELSE [st EXCEPT !.arrays = Append(@, RepeatValues(st.arrays[r.ref], l.i)),
                    !.val = ArrayV(Len(st.arrays) + 1)]

evalTimes(st, l, r) ==
    CASE l.t = "int" /\ r.t = "int" -> Yield(st, IntV(l.i * r.i))
      [] IsNumber(l) /\ IsNumber(r) /\ ~(l.t = "int" /\ r.t = "int") ->
            Yield(st, FloatV(Num(l) * Num(r), Den(l) * Den(r)))
      [] l.t = "int" /\ r.t = "str" ->
            IF l.i < 0
            THEN Raise(st, valueError("can't multiply string by a negative number"))
            ELSE Yield(st, StrV(Repeat(r.s, l.i)))
      [] l.t = "int" /\ r.t = "array" -> timesIntArray(st, l, r)
      [] l.t = "str" /\ r.t = "int" ->
            IF r.i < 0
            THEN Raise(st, valueError("can't multiply string by a negative number"))
            ELSE Yield(st, StrV(Repeat(l.s, r.i)))
      [] l.t = "array" /\ r.t = "int" ->
            IF r.i < 0
            THEN Raise(st, valueError("can't multiply array by a negative number"))
            ELSE [st EXCEPT !.arrays = Append(@, RepeatValues(st.arrays[l.ref], r.i)),
                            !.val = ArrayV(Len(st.arrays) + 1)]
      [] OTHER -> Raise(st, typeError("* requires two integers or floats, or a string or array and an integer"))

evalDivide(st, l, r) ==
    IF ~(IsNumber(l) /\ IsNumber(r))
    THEN Raise(st, typeError("/ requires two floats or integers"))
    ELSE IF Num(r) = 0
         THEN Raise(st, valueError("can't divide by zero"))
         ELSE Yield(st, FloatV(Num(l) * Den(r), Den(l) * Num(r)))

\* int(x): truncation toward zero of the quotient num/den
TruncDiv(a, b) ==
    LET q == (IF a < 0 THEN -a ELSE a) \div (IF b < 0 THEN -b ELSE b)
    IN IF (a < 0) = (b < 0) THEN q ELSE -q

\* Go's %: the remainder has the sign of the dividend
GoRem(a, b) == a - b * TruncDiv(a, b)

evalModulo(st, l, r) ==
    IF ~(IsNumber(l) /\ IsNumber(r))
    THEN Raise(st, typeError("% requires two floats or integers"))
    ELSE IF Num(r) = 0
         THEN Raise(st, valueError("can't divide by zero"))
         ELSE LET li == TruncDiv(Num(l), Den(l))
                  ri == TruncDiv(Num(r), Den(r))
              IN IF ri = 0
                 THEN Raise(st, [k |-> "error", cat |-> "go", msg |-> "integer divide by zero"])
                 ELSE Yield(st, IntV(GoRem(li, ri)))

\* binaryEvalFuncs (part_004 51-64)
BinaryEvalOps == {"DIVIDE", "EQUAL", "GT", "GTE", "LT", "LTE", "MINUS", "MODULO",
                  "NOTEQUAL", "PLUS", "TIMES"}

NotOf(st) == IF Panicking(st) THEN st ELSE Yield(st, BoolV(~st.val.b))

binaryEval(op, st, l, r) ==
    CASE op = "DIVIDE" -> evalDivide(st, l, r)
      [] op = "EQUAL" -> evalEqual(st, l, r)
      [] op = "GT" -> evalLess(st, r, l)
      [] op = "GTE" -> NotOf(evalLess(st, l, r))
      [] op = "LT" -> evalLess(st, l, r)
      [] op = "LTE" -> NotOf(evalLess(st, r, l))
      [] op = "MINUS" -> evalMinus(st, l, r)
      [] op = "MODULO" -> evalModulo(st, l, r)
      [] op = "NOTEQUAL" -> NotOf(evalEqual(st, l, r))
      [] op = "PLUS" -> evalPlus(st, l, r)
      [] op = "TIMES" -> evalTimes(st, l, r)

(***************************************************************************)
(* Unary operators (part_004 431-447).                                     *)
(***************************************************************************)
evalNot(st, v) ==
    IF v.t = "bool" THEN Yield(st, BoolV(~v.b))
    ELSE Raise(st, typeError("not requires a bool"))

evalNegative(st, v) ==
    CASE v.t = "int" -> Yield(st, IntV(-v.i))
      [] v.t = "float" -> Yield(st, FloatV(-v.num, v.den))
      [] OTHER -> Raise(st, typeError("unary - requires an integer or float"))

\* an evalSubscript that takes the index as it is
evalSubscriptPlain(st, container, subscript) ==
    IF container.t = "array" /\ subscript.t = "int"
    THEN LET c == st.arrays[container.ref]
         IN IF subscript.i < 0 \/ subscript.i >= Len(c)
            THEN Raise(st, valueError("subscript " \o ToString(subscript.i) \o " out of range"))
            ELSE Yield(st, c[subscript.i + 1])
    ELSE Raise(st, typeError("can only subscript string, array, or object"))

\* evalSubscript on arrays and objects (part_004 450-487); subscripts of
\* strings are not modelled
evalSubscript(st, container, subscript) ==
    CASE container.t = "array" ->
            IF subscript.t = "int"
            THEN LET c == st.arrays[container.ref]
                     s == IF subscript.i < 0 THEN Len(c) + subscript.i ELSE subscript.i
                 IN IF s < 0 \/ s >= Len(c)
                    THEN Raise(st, valueError("subscript " \o ToString(s) \o " out of range"))
                    ELSE Yield(st, c[s + 1])
            ELSE Raise(st, typeError("array subscript must be an integer"))
      [] container.t = "object" ->
            IF subscript.t = "str"
            THEN LET c == st.maps[container.ref]
                 IN IF subscript.s \in DOMAIN c
                    THEN Yield(st, c[subscript.s])
                    ELSE Raise(st, valueError("key not found: \"" \o subscript.s \o "\""))
            ELSE Raise(st, typeError("object subscript must be a string"))
      [] OTHER -> Raise(st, typeError("can only subscript string, array, or object"))

\* an assignSubscript that counts a negative index from the end
assignSubscriptFromEnd(st, container, subscript, value) ==
    IF container.t = "array" /\ subscript.t = "int"
    THEN LET n == Len(st.arrays[container.ref])
             s == IF subscript.i < 0 THEN n + subscript.i ELSE subscript.i
         IN IF s < 0 \/ s >= n
            THEN Raise(st, valueError("subscript " \o ToString(s) \o " out of range"))
            ELSE [st EXCEPT !.arrays[container.ref][s + 1] = value]
    ELSE Raise(st, typeError("can only assign to subscript of array or object"))

\* interp.assignSubscript (part_004 703-723)
assignSubscript(st, container, subscript, value) ==
    CASE container.t = "array" ->
            IF subscript.t = "int"
            THEN IF subscript.i < 0 \/ subscript.i >= Len(st.arrays[container.ref])
                 THEN Raise(st, valueError("subscript " \o ToString(subscript.i)
                                           \o " out of range"))
                 ELSE [st EXCEPT !.arrays[container.ref][subscript.i + 1] = value]
            ELSE Raise(st, typeError("array subscript must be an integer"))
      [] container.t = "object" ->
            IF subscript.t = "str"
            THEN [st EXCEPT !.maps[container.ref] = MapSet(@, subscript.s, value)]
            ELSE Raise(st, typeError("object subscript must be a string"))
      [] OTHER -> Raise(st, typeError("can only assign to subscript of array or object"))

(***************************************************************************)
(* Built-in functions (functions.go 1087-, 1444-1453).                     *)
(***************************************************************************)
\* printFunc: one line per call; the line keeps the argument values that
\* toString formats
printFunc(st, args) == Yield([st EXCEPT !.stdout = Append(@, args)], NullV)

\* exitFunc (functions.go 1246-1260); interp.exit is os.Exit or the host's
\* callback, which returns; exits keeps the codes interp.exit was called with
exitFunc(st, args) ==
    IF Len(args) > 1
    THEN Raise(st, typeError("exit() requires 0 or 1 args, got " \o ToString(Len(args))))
    ELSE IF Len(args) > 0 /\ args[1].t # "int"
    THEN Raise(st, typeError("exit() requires an integer, not " \o typeName(args[1])))
    ELSE LET code == IF Len(args) > 0 THEN args[1].i ELSE 0
             s1 == [st EXCEPT !.exits = Append(@, code)]
         IN IF st.exit = "os.Exit" THEN Raise(s1, ProcessExit(code)) ELSE Yield(s1, NullV)

\* ensureNumArgs (functions.go 1002-1010)
ensureNumArgs(st, pos, name, args, required) ==
    IF Len(args) # required
    THEN Raise(st, ErrorAt(typeError(name \o "() requires " \o ToString(required) \o " arg"
                                     \o (IF required = 1 THEN "" ELSE "s")
                                     \o ", got " \o ToString(Len(args))), pos))
    ELSE st

(***************************************************************************)
(* The evaluator (part_004 489-894, functions.go 1020-1051).               *)
(***************************************************************************)
(***************************************************************************)
(* Files.  A path is the sequence of its characters; files maps the        *)
(* absolute paths of the files that exist to their contents.               *)
(***************************************************************************)
\* the characters of the file names the programs use
Chars(s) ==
    CASE s = "lib" -> <<"l", "i", "b">>
      [] s = "lib.din" -> <<"l", "i", "b", ".", "d", "i", "n">>
      [] s = "/lib.din" -> <<"/", "l", "i", "b", ".", "d", "i", "n">>
RECURSIVE Str(_)
Str(cs) == IF cs = <<>> THEN "" ELSE cs[1] \o Str(Tail(cs))

\* strings.HasSuffix, filepath.IsAbs, filepath.Join (of clean paths)
HasSuffix(cs, suffix) ==
    Len(cs) >= Len(suffix) /\ SubSeq(cs, Len(cs) - Len(suffix) + 1, Len(cs)) = suffix
IsAbs(cs) == Len(cs) > 0 /\ cs[1] = "/"
Join(a, b) == IF IsAbs(b) THEN a \o b ELSE a \o <<"/">> \o b

\* os.Getwd and os.ReadFile: a relative path is read below the working directory
Getwd == <<"/", "w">>
ReadFile(files, path) ==
    LET abs == IF IsAbs(path) THEN path ELSE Join(Getwd, path)
    IN IF abs \in DOMAIN files
       THEN [ok |-> TRUE, content |-> files[abs]]
       ELSE [ok |-> FALSE, content |-> <<>>]

\* the paths importFunc tries, in order (functions.go 1940-1957)
possiblePaths(filename) ==
    <<filename>>
    \o (IF ~IsAbs(filename) THEN <<Join(Getwd, filename)>> ELSE <<>>)
    \o <<Join(<<"e", "x", "a", "m", "p", "l", "e", "s">>, filename), Join(<<".", ".", "/", "e", "x", "a", "m", "p", "l", "e", "s">>, filename)>>

\* `for _, path := range possiblePaths`: the first path that can be read
RECURSIVE firstReadable(_, _, _)
firstReadable(files, paths, i) ==
    IF i > Len(paths) THEN [ok |-> FALSE, content |-> <<>>, foundPath |-> <<>>]
    ELSE LET r == ReadFile(files, paths[i])
         IN IF r.ok THEN [ok |-> TRUE, content |-> r.content, foundPath |-> paths[i]]
            ELSE firstReadable(files, paths, i + 1)

RECURSIVE ParseProgram(_)
RECURSIVE go(_)
RECURSIVE evaluate(_, _)
RECURSIVE evaluateAll(_, _, _, _)
RECURSIVE evalAnd(_, _, _)
RECURSIVE evalOr(_, _, _)
RECURSIVE evalXor(_, _, _)
RECURSIVE callFunction(_, _, _, _)
RECURSIVE userFunctionCall(_, _, _, _)
RECURSIVE executeStatement(_, _)
RECURSIVE executeBlockFrom(_, _, _)
RECURSIVE executeBlock(_, _)
RECURSIVE whileLoop(_, _)
RECURSIVE forLoop(_, _, _, _)
RECURSIVE loopBody(_, _)
RECURSIVE bindParameters(_, _, _, _)
RECURSIVE executeImported(_, _, _)
RECURSIVE evalMapItems(_, _, _, _)

\* interp.evalAnd
evalAndEager(st, le, re) ==
    LET l == go(<<"evaluate", st, le>>)
        r == go(<<"evaluate", l, re>>)
    IN IF Panicking(l) THEN l
       ELSE IF Panicking(r) THEN r
       ELSE IF l.val.t = "bool" /\ r.val.t = "bool"
            THEN Yield(r, BoolV(l.val.b /\ r.val.b))
            ELSE Raise(r, typeError("and requires two bools"))

evalAnd(st, le, re) ==
    LET l == go(<<"evaluate", st, le>>)
    IN IF Panicking(l) THEN l
       ELSE IF l.val.t = "bool"
            THEN IF ~l.val.b
                 THEN Yield(l, BoolV(FALSE))
                 ELSE LET r == go(<<"evaluate", l, re>>)
                      IN IF Panicking(r) THEN r
                         ELSE IF r.val.t = "bool"
                              THEN Yield(r, BoolV(r.val.b))
                              ELSE Raise(r, typeError("and requires two bools"))
            ELSE Raise(l, typeError("and requires two bools"))

\* interp.evalOr
evalOr(st, le, re) ==
    LET l == go(<<"evaluate", st, le>>)
    IN IF Panicking(l) THEN l
       ELSE IF l.val.t = "bool"
            THEN IF l.val.b
                 THEN Yield(l, BoolV(TRUE))
                 ELSE LET r == go(<<"evaluate", l, re>>)
                      IN IF Panicking(r) THEN r
                         ELSE IF r.val.t = "bool"
                              THEN Yield(r, BoolV(r.val.b))
                              ELSE Raise(r, typeError("or requires two bools"))
            ELSE Raise(l, typeError("or requires two bools"))

\* interp.evalXor
evalXor(st, le, re) ==
    LET l == go(<<"evaluate", st, le>>)
    IN IF Panicking(l) THEN l
       ELSE LET r == go(<<"evaluate", l, re>>)
            IN IF Panicking(r) THEN r
               ELSE Yield(r, BoolV(IsTruthy(r, l.val) # IsTruthy(r, r.val)))

\* the loop over e.Arguments / e.Values: evaluates exprs[i..] left to right,
\* stopping at the first panic; the values are left in st.val as a sequence
evaluateAll(st, exprs, i, acc) ==
    IF i > Len(exprs) THEN Yield(st, acc)
    ELSE LET s1 == go(<<"evaluate", st, exprs[i]>>)
         IN IF Panicking(s1) THEN s1
            ELSE go(<<"evaluateAll", s1, exprs, i + 1, Append(acc, s1.val)>>)

\* the loop `for i, arg := range args { interp.assign(f.Parameters[i], arg) }`
bindParameters(st, params, args, i) ==
    IF i > Len(args) THEN st
    ELSE bindParameters(assign(st, params[i], args[i]), params, args, i + 1)

\* userFunction.call
userFunctionCall(st, pos, f, args0) ==
    LET np == Len(f.Parameters)
        short == f.Ellipsis /\ (np = 0 \/ Len(args0) < np - 1)
    IN IF short
       THEN \* args[len(f.Parameters)-1:] is out of range: a Go run-time panic
            Raise(st, [k |-> "error", cat |-> "go", msg |-> "slice bounds out of range"])
       ELSE
       LET s0 == IF f.Ellipsis
                 THEN [st EXCEPT !.arrays = Append(@, SubSeq(args0, np, Len(args0)))]
                 ELSE st
           args == IF f.Ellipsis
                   THEN Append(SubSeq(args0, 1, np - 1), ArrayV(Len(st.arrays) + 1))
                   ELSE args0
           sE == ensureNumArgs(s0, pos, f.Name, args, np)
       IN IF Panicking(sE)
          THEN sE
          ELSE LET s1 == pushScope(sE, f.Closure)
                   s2 == pushNewScope(s1)
                   s3 == bindParameters(s2, f.Parameters, args, 1)
                   s4 == [s3 EXCEPT !.stats.UserCalls = @ + 1]
                   s5 == go(<<"executeBlock", s4, f.Body>>)
                   \* the two deferred interp.popScope() run on every exit
                   s6 == popScope(popScope(s5))
               IN IF Panicking(s6) THEN s6 ELSE Yield(s6, NullV)

\* the statement loop of importFunc (functions.go 1985-1996)
executeImported(st, stmts, i) ==
    IF i > Len(stmts) THEN st
    ELSE IF stmts[i].n = "FunctionDefinition" /\ stmts[i].Name = "main"
         THEN go(<<"executeImported", st, stmts, i + 1>>)
         ELSE LET s1 == go(<<"executeStatement", st, stmts[i]>>)
              IN IF Panicking(s1) THEN s1 ELSE go(<<"executeImported", s1, stmts, i + 1>>)

\* importFunc (functions.go 1925-1999); its messages go to interp.stdout
importFunc(st, args) ==
    LET sE == ensureNumArgs(st, TokenPosition, "import", args, 1)
    IN IF Panicking(sE) THEN sE
       ELSE IF args[1].t # "str"
       THEN Raise(st, typeError("import() requires a string filename"))
       ELSE LET given == Chars(args[1].s)
                filename == IF HasSuffix(given, <<".", "d", "i", "n">>)
                            THEN given ELSE given \o <<".", "d", "i", "n">>
                found == firstReadable(st.files, possiblePaths(filename), 1)
            IN IF ~found.ok
               THEN Yield([st EXCEPT !.stdout = Append(@,
                        <<StrV("Error importing file " \o Str(filename)
                               \o ": file not found in any of the search paths")>>)],
                          BoolV(FALSE))
               ELSE LET importedProg == go(<<"ParseProgram", found.content>>)
                    IN IF importedProg.err # NilError
                       THEN Yield([st EXCEPT !.stdout = Append(@,
                                <<StrV("Error parsing imported file " \o Str(found.foundPath)
                                       \o ": " \o ErrorString(importedProg.err))>>)],
                                  BoolV(FALSE))
                       ELSE LET r == go(<<"executeImported", st, importedProg.prog, 1>>)
                            IN IF Panicking(r) THEN r ELSE Yield(r, BoolV(TRUE))

\* builtinFunction.call (functions.go 1076-1079)
builtinFunctionCall(st, f, args) ==
    LET s1 == [st EXCEPT !.stats.BuiltinCalls = @ + 1]
    IN CASE f.Name = "print" -> printFunc(s1, args)
         [] f.Name = "exit" -> exitFunc(s1, args)
         [] f.Name = "import" -> importFunc(s1, args)

\* interp.executeImport (part_004 991-1010)
executeImport(st, s) ==
    LET r == ReadFile(st.files, Chars(s.Filename))
    IN IF ~r.ok
       THEN Raise(st, runtimeError("failed to import file '" \o s.Filename \o "': open "
                                   \o s.Filename \o ": no such file or directory"))
       ELSE LET imported == go(<<"ParseProgram", r.content>>)
            IN IF imported.err # NilError
               THEN Raise(st, runtimeError("failed to parse imported file '" \o s.Filename
                                           \o "': " \o ErrorString(imported.err)))
               ELSE go(<<"executeBlock", st, imported.prog>>)

\* interp.callFunction: recovers a returnResult, re-panics anything else
callFunction(st, pos, f, args) ==
    LET r == IF f.t = "fun" THEN go(<<"userFunctionCall", st, pos, f, args>>)
             ELSE builtinFunctionCall(st, f, args)
    IN IF r.panic.k = "returnResult"
       THEN Yield(Recovered(r), r.panic.value)
       ELSE r

\* the item loop of the Map case of interp.evaluate (part_004 608-618)
evalMapItems(st, items, i, ref) ==
    IF i > Len(items) THEN st
    ELSE LET key == go(<<"evaluate", st, items[i][1]>>)
         IN IF Panicking(key) THEN key
            ELSE IF key.val.t = "str"
            THEN LET v == go(<<"evaluate", key, items[i][2]>>)
                 IN IF Panicking(v) THEN v
                    ELSE go(<<"evalMapItems",
                              [v EXCEPT !.maps[ref] = MapSet(@, key.val.s, v.val)],
                              items, i + 1, ref>>)
            ELSE Raise(key, typeError("object key must be string, not " \o typeName(key.val)))

\* interp.evaluate
evaluate(st0, e) ==
    LET st == [st0 EXCEPT !.stats.Ops = @ + 1]
    IN CASE e.n = "Binary" ->
            IF e.Operator \in BinaryEvalOps
            THEN LET l == go(<<"evaluate", st, e.Left>>)
                 IN IF Panicking(l) THEN l
                    ELSE LET r == go(<<"evaluate", l, e.Right>>)
                         IN IF Panicking(r) THEN r
                            ELSE binaryEval(e.Operator, r, l.val, r.val)
            ELSE IF e.Operator = "AND" THEN go(<<"evalAnd", st, e.Left, e.Right>>)
            ELSE IF e.Operator = "OR" THEN go(<<"evalOr", st, e.Left, e.Right>>)
            ELSE go(<<"evalXor", st, e.Left, e.Right>>)
         [] e.n = "Unary" ->
            LET v == go(<<"evaluate", st, e.Operand>>)
            IN IF Panicking(v) THEN v
               ELSE IF e.Operator = "NOT" THEN evalNot(v, v.val)
               ELSE evalNegative(v, v.val)
         [] e.n = "Ternary" ->
            LET c == go(<<"evaluate", st, e.Condition>>)
            IN IF Panicking(c) THEN c
               ELSE IF IsTruthy(c, c.val) THEN go(<<"evaluate", c, e.TrueExpr>>)
               ELSE go(<<"evaluate", c, e.FalseExpr>>)
         [] e.n = "Call" ->
            LET fn == go(<<"evaluate", st, e.Function>>)
            IN IF Panicking(fn) THEN fn
               ELSE IF fn.val.t \in {"fun", "builtin"}
                    THEN LET a == go(<<"evaluateAll", fn, e.Arguments, 1, <<>>>>)
                         IN IF Panicking(a) THEN a
                            ELSE go(<<"callFunction", a, TokenPosition, fn.val, a.val>>)
                    ELSE Raise(fn, typeError("can't call non-function type " \o typeName(fn.val)))
         [] e.n = "Literal" -> Yield(st, e.Value)
         [] e.n = "Variable" ->
            LET r == lookup(st, e.Name)
            IN IF r.ok THEN Yield(st, r.v)
               ELSE Raise(st, nameError("name \"" \o e.Name \o "\" not found"))
         [] e.n = "List" ->
            LET a == go(<<"evaluateAll", st, e.Values, 1, <<>>>>)
            IN IF Panicking(a) THEN a
               ELSE [a EXCEPT !.arrays = Append(@, a.val),
                              !.val = ArrayV(Len(a.arrays) + 1)]
         [] e.n = "Map" ->
            LET s1 == makeMap(st)
                r == go(<<"evalMapItems", s1, e.Items, 1, Len(s1.maps)>>)
            IN IF Panicking(r) THEN r ELSE Yield(r, ObjectV(Len(s1.maps)))
         [] e.n = "Subscript" ->
            LET c == go(<<"evaluate", st, e.Container>>)
            IN IF Panicking(c) THEN c
               ELSE LET s == go(<<"evaluate", c, e.Subscript>>)
                    IN IF Panicking(s) THEN s
                       ELSE evalSubscript(s, c.val, s.val)
         [] e.n = "FunctionExpression" ->
            Yield(st, UserFunction("", e.Parameters, e.Ellipsis, e.Body,
                                   st.vars[Len(st.vars)]))

\* interp.executeBlock
executeBlockFrom(st, block, i) ==
    IF i > Len(block) THEN st
    ELSE LET s1 == go(<<"executeStatement", st, block[i]>>)
         IN IF Panicking(s1) THEN s1 ELSE go(<<"executeBlockFrom", s1, block, i + 1>>)

executeBlock(st, block) == go(<<"executeBlockFrom", st, block, 1>>)

\* the inner func() of While and For: runs the body and recovers
\* BreakException (re-panicking "__break__") and ContinueException
loopBody(st, body) ==
    LET b == go(<<"executeBlock", st, body>>)
    IN CASE b.panic.k = "BreakException" -> Raise(b, BreakString)
         [] b.panic.k = "ContinueException" -> Recovered(b)
         [] OTHER -> b

\* the `for { ... }` of the While case
whileLoop(st, s) ==
    LET c == go(<<"evaluate", st, s.Condition>>)
    IN IF Panicking(c) THEN c
       ELSE IF c.val.t = "bool"
            THEN IF ~c.val.b THEN c
                 ELSE LET b == go(<<"loopBody", c, s.Body>>)
                      IN IF Panicking(b) THEN b ELSE go(<<"whileLoop", b, s>>)
            ELSE Raise(c, typeError("while condition must be bool"))

\* the `for iterator.HasNext()` of the For case; the iterator holds the
\* slice *iterable (its length n fixed, its elements shared with the array)
forLoop(st, s, ref, i) ==
    IF i > Len(st.arrays[ref]) THEN st
    ELSE LET a == assign(st, s.Name, st.arrays[ref][i])
             b == go(<<"loopBody", a, s.Body>>)
         IN IF Panicking(b) THEN b ELSE go(<<"forLoop", b, s, ref, i + 1>>)

\* the deferred recover of the outer func() of While and For
recoverBreak(st) == IF st.panic.k = "__break__" THEN Recovered(st) ELSE st

\* the deferred recover of the TryCatch case, entered with the panic r of
\* the try block
tryRecover(st, s) ==
    LET r == st.panic
        s1 == popScope(Recovered(st))
        s2 == pushNewScope(s1)
    IN IF r.k = "exit" THEN st
       ELSE IF r.k = "returnResult"
       THEN Raise(s2, r)
       ELSE LET s3 == assign(s2, s.ErrVar, StrV(ErrorString(r)))
                s4 == go(<<"executeBlock", s3, s.CatchBlock>>)
            IN IF Panicking(s4) THEN s4 ELSE popScope(s4)

\* interp.executeStatement
executeStatement(st0, s) ==
    LET st == [st0 EXCEPT !.stats.Ops = @ + 1]
    IN CASE s.n = "Assign" ->
            IF s.Target.n = "Variable"
            THEN LET v == go(<<"evaluate", st, s.Value>>)
                 IN IF Panicking(v) THEN v ELSE assign(v, s.Target.Name, v.val)
            ELSE LET c == go(<<"evaluate", st, s.Target.Container>>)
                 IN IF Panicking(c) THEN c
                    ELSE LET i == go(<<"evaluate", c, s.Target.Subscript>>)
                         IN IF Panicking(i) THEN i
                            ELSE LET v == go(<<"evaluate", i, s.Value>>)
                                 IN IF Panicking(v) THEN v
                                    ELSE assignSubscript(v, c.val, i.val, v.val)
         [] s.n = "If" ->
            LET c == go(<<"evaluate", st, s.Condition>>)
            IN IF Panicking(c) THEN c
               ELSE IF c.val.t = "bool"
                    THEN IF c.val.b THEN go(<<"executeBlock", c, s.Body>>)
                         ELSE IF Len(s.Else) > 0 THEN go(<<"executeBlock", c, s.Else>>)
                         ELSE c
                    ELSE Raise(c, typeError("if condition must be bool, got " \o typeName(c.val)))
         [] s.n = "While" -> recoverBreak(go(<<"whileLoop", st, s>>))
         [] s.n = "For" ->
            LET it == go(<<"evaluate", st, s.Iterable>>)
            IN IF Panicking(it) THEN it
               ELSE IF it.val.t = "array"
                    THEN recoverBreak(go(<<"forLoop", it, s, it.val.ref, 1>>))
                    ELSE Raise(it, typeError("expected iterable (string, array, or object), got "
                                             \o typeName(it.val)))
         [] s.n = "TryCatch" ->
            LET s1 == pushNewScope(st)
                s2 == go(<<"executeBlock", s1, s.TryBlock>>)
            IN IF Panicking(s2) THEN go(<<"tryRecover", s2, s>>) ELSE popScope(s2)
         [] s.n = "ExpressionStatement" -> go(<<"evaluate", st, s.Expression>>)
         [] s.n = "FunctionDefinition" ->
            assign(st, s.Name,
                   UserFunction(s.Name, s.Parameters, s.Ellipsis, s.Body, st.vars[Len(st.vars)]))
         [] s.n = "Return" ->
            LET r == go(<<"evaluate", st, s.Result>>)
            IN IF Panicking(r) THEN r ELSE Raise(r, returnResult(r.val))
         [] s.n = "Break" -> Raise(st, BreakException)
         [] s.n = "Import" -> executeImport(st, s)
         [] s.n = "Continue" -> Raise(st, ContinueException)

\* the calls between the interpreter's mutually recursive functions: fn names
\* the callee and a holds its arguments
go(a) ==
    CASE a[1] = "evaluate" -> evaluate(a[2], a[3])
      [] a[1] = "evaluateAll" -> evaluateAll(a[2], a[3], a[4], a[5])
      [] a[1] = "evalAnd" -> evalAnd(a[2], a[3], a[4])
      [] a[1] = "evalOr" -> evalOr(a[2], a[3], a[4])
      [] a[1] = "evalXor" -> evalXor(a[2], a[3], a[4])
      [] a[1] = "callFunction" -> callFunction(a[2], a[3], a[4], a[5])
      [] a[1] = "executeImported" -> executeImported(a[2], a[3], a[4])
      [] a[1] = "evalMapItems" -> evalMapItems(a[2], a[3], a[4], a[5])
      [] a[1] = "ParseProgram" -> ParseProgram(a[2])
      [] a[1] = "userFunctionCall" -> userFunctionCall(a[2], a[3], a[4], a[5])
      [] a[1] = "executeStatement" -> executeStatement(a[2], a[3])
      [] a[1] = "executeBlockFrom" -> executeBlockFrom(a[2], a[3], a[4])
      [] a[1] = "executeBlock" -> executeBlock(a[2], a[3])
      [] a[1] = "whileLoop" -> whileLoop(a[2], a[3])
      [] a[1] = "forLoop" -> forLoop(a[2], a[3], a[4], a[5])
      [] a[1] = "loopBody" -> loopBody(a[2], a[3])
      [] a[1] = "tryRecover" -> tryRecover(a[2], a[3])

(***************************************************************************)
(* Tokenizer (part_006).  The input is a sequence of one-character       *)
(* strings (ASCII only); positions are left out.                          *)
(***************************************************************************)
\* t.ch = -1
EOFch == "EOF"

LowerCase == {"a", "b", "c", "d", "e", "f", "g", "h", "i", "j", "k", "l", "m",
              "n", "o", "p", "q", "r", "s", "t", "u", "v", "w", "x", "y", "z"}
UpperCase == {"A", "B", "C", "D", "E", "F", "G", "H", "I", "J", "K", "L", "M",
              "N", "O", "P", "Q", "R", "S", "T", "U", "V", "W", "X", "Y", "Z"}
DigitChars == <<"0", "1", "2", "3", "4", "5", "6", "7", "8", "9">>
IsDigit(ch) == \E i \in 1..10 : DigitChars[i] = ch
DigitValue(ch) == (CHOOSE i \in 1..10 : DigitChars[i] = ch) - 1

isNameStart(ch) == ch = "_" \/ ch \in LowerCase \/ ch \in UpperCase

keywordTokens ==
    [and |-> "AND", break |-> "BREAK", catch |-> "CATCH", continue |-> "CONTINUE",
     else |-> "ELSE", end |-> "END", false |-> "FALSE", for |-> "FOR", fun |-> "FUN",
     if |-> "IF", import |-> "IMPORT", in |-> "IN", null |-> "NULL", not |-> "NOT",
     or |-> "OR", return |-> "RETURN", then |-> "THEN", true |-> "TRUE", try |-> "TRY",
     while |-> "WHILE", xor |-> "XOR"]

tokenNames ==
    ("ILLEGAL" :> "ILLEGAL") @@ ("EOF" :> "EOF") @@ ("ASSIGN" :> "=") @@ ("COLON" :> ":") @@
    ("COMMA" :> ",") @@ ("DIVIDE" :> "/") @@ ("DOT" :> ".") @@ ("GT" :> ">") @@
    ("LBRACE" :> "{") @@ ("LBRACKET" :> "[") @@ ("LPAREN" :> "(") @@ ("LT" :> "<") @@
    ("MINUS" :> "-") @@ ("MODULO" :> "%") @@ ("PLUS" :> "+") @@ ("RBRACE" :> "}") @@
    ("RBRACKET" :> "]") @@ ("RPAREN" :> ")") @@ ("TIMES" :> "*") @@ ("QUESTION" :> "?") @@
    ("END" :> "end") @@ ("EQUAL" :> "==") @@ ("GTE" :> ">=") @@ ("LTE" :> "<=") @@
    ("NOTEQUAL" :> "!=") @@ ("PLUSEQUAL" :> "+=") @@ ("MINUSEQUAL" :> "-=") @@ ("TIMESEQUAL" :> "*=") @@
    ("DIVIDEEQUAL" :> "/=") @@ ("MODULOEQUAL" :> "%=") @@ ("ELLIPSIS" :> "...") @@ ("AND" :> "and") @@
    ("BREAK" :> "break") @@ ("CATCH" :> "catch") @@ ("CONTINUE" :> "continue") @@ ("ELSE" :> "else") @@
    ("FALSE" :> "false") @@ ("FOR" :> "for") @@ ("FUN" :> "fun") @@ ("IF" :> "if") @@
    ("IMPORT" :> "import") @@ ("IN" :> "in") @@ ("NULL" :> "null") @@ ("NOT" :> "not") @@
    ("OR" :> "or") @@ ("RETURN" :> "return") @@ ("THEN" :> "then") @@ ("TRUE" :> "true") @@
    ("TRY" :> "try") @@ ("WHILE" :> "while") @@ ("XOR" :> "xor") @@ ("INT" :> "int") @@
    ("FLOAT" :> "float") @@ ("NAME" :> "name") @@ ("STR" :> "str")

\* a byte that starts no UTF-8 sequence: utf8.DecodeRune yields RuneError
InvalidByte == "0xff"

\* Tokenizer.next: read the next character
Tokenizer_next(t) ==
    IF t.offset >= Len(t.input)
    THEN [t EXCEPT !.ch = EOFch]
    ELSE IF t.input[t.offset + 1] = InvalidByte
         THEN [t EXCEPT !.ch = EOFch, !.errorMsg = "invalid UTF-8 byte 0xff"]
         ELSE [t EXCEPT !.ch = t.input[t.offset + 1], !.offset = @ + 1]

NewTokenizer(in) ==
    Tokenizer_next([input |-> in, offset |-> 0, ch |-> EOFch, errorMsg |-> ""])

\* rune(t.input[t.offset]), guarded by t.offset < len(t.input)
PeekIs(t, ch) == t.offset < Len(t.input) /\ t.input[t.offset + 1] = ch

RECURSIVE skipSpaces(_)
skipSpaces(t) ==
    IF t.ch \in {" ", "\t", "\r", "\n"} THEN skipSpaces(Tokenizer_next(t)) ELSE t

RECURSIVE skipLineComment(_)
skipLineComment(t) ==
    IF t.ch # "\n" /\ t.ch # EOFch THEN skipLineComment(Tokenizer_next(t)) ELSE t

\* the inner loop of a /* */ comment; .closed tells how it ended
RECURSIVE skipMultilineComment(_)
skipMultilineComment(t) ==
    IF t.ch = EOFch
    THEN [t |-> [t EXCEPT !.errorMsg = "unterminated multiline comment"], closed |-> FALSE]
    ELSE IF t.ch = "*" /\ PeekIs(t, "/")
         THEN [t |-> Tokenizer_next(Tokenizer_next(t)), closed |-> TRUE]
         ELSE skipMultilineComment(Tokenizer_next(t))

RECURSIVE skipWhitespaceAndComments(_)
skipWhitespaceAndComments(t0) ==
    Let(skipSpaces(t0), LAMBDA t :
       IF t.ch = "/" /\ PeekIs(t, "/")
       THEN skipWhitespaceAndComments(
                Tokenizer_next(skipLineComment(Tokenizer_next(Tokenizer_next(t)))))
       ELSE IF t.ch = "/" /\ PeekIs(t, "*")
            THEN Let(skipMultilineComment(Tokenizer_next(Tokenizer_next(t))), LAMBDA r :
                    IF r.closed THEN skipWhitespaceAndComments(r.t) ELSE r.t)
            ELSE t)

\* no call of Tokenizer.Next has been made
NoToken == [tok |-> "none", val |-> ""]

\* what Tokenizer.Next returns (without the position), and the tokenizer after it
Tok(t, token, value) == [t |-> t, tok |-> token, val |-> value]

\* the loop collecting the characters of a name
RECURSIVE scanName(_, _)
scanName(t, name) ==
    IF isNameStart(t.ch) \/ IsDigit(t.ch)
    THEN scanName(Tokenizer_next(t), name \o t.ch)
    ELSE [t |-> t, name |-> name]

\* the loop collecting digits and at most one decimal point
RECURSIVE scanNumber(_, _, _)
scanNumber(t, runes, isFloat) ==
    IF IsDigit(t.ch) \/ t.ch = "."
    THEN IF t.ch = "." /\ isFloat
         THEN Tok(t, "ILLEGAL", "unexpected second '.' in number")
         ELSE scanNumber(Tokenizer_next(t), Append(runes, t.ch), isFloat \/ t.ch = ".")
    ELSE Tok(t, IF isFloat THEN "FLOAT" ELSE "INT", runes)

\* the loop collecting a string literal up to the closing quote
RECURSIVE scanString(_, _, _)
scanString(t, quote, str) ==
    IF t.ch = quote THEN Tok(Tokenizer_next(t), "STR", str)
    ELSE IF t.ch = EOFch THEN Tok(t, "ILLEGAL", "didn't find end quote in string")
    ELSE IF t.ch \in {"\r", "\n"} THEN Tok(t, "ILLEGAL", "can't have newline in string")
    ELSE IF t.ch = "\\"
         THEN Let(Tokenizer_next(t), LAMBDA t1 :
                 IF t1.ch \in {quote, "\\"}
                 THEN scanString(Tokenizer_next(t1), quote, str \o t1.ch)
                 ELSE IF t1.ch = "t" THEN scanString(Tokenizer_next(t1), quote, str \o "\t")
                 ELSE IF t1.ch = "r" THEN scanString(Tokenizer_next(t1), quote, str \o "\r")
                 ELSE IF t1.ch = "n" THEN scanString(Tokenizer_next(t1), quote, str \o "\n")
                 ELSE Tok(t1, "ILLEGAL", "invalid string escape \\" \o t1.ch))
         ELSE scanString(Tokenizer_next(t), quote, str \o t.ch)

\* `if t.ch == '=' { t.next(); token = X } else { token = Y }`
IfEqual(t, withEqual, without) ==
    IF t.ch = "=" THEN Tok(Tokenizer_next(t), withEqual, "") ELSE Tok(t, without, "")

\* Tokenizer.Next.  The value of an INT or FLOAT token is kept as the
\* sequence of its characters, the value of a NAME or STR token as a string.
Tokenizer_Next(t0) ==
    Let(skipWhitespaceAndComments(t0), LAMBDA t :
       IF t.ch = EOFch
       THEN IF t.errorMsg # "" THEN Tok(t, "ILLEGAL", t.errorMsg) ELSE Tok(t, "EOF", "")
       ELSE
       Let(t.ch, LAMBDA ch :
           Let(Tokenizer_next(t), LAMBDA t1 :
          IF isNameStart(ch)
          THEN Let(scanName(t1, ch), LAMBDA r :
                  IF r.name \in DOMAIN keywordTokens
                  THEN Tok(r.t, keywordTokens[r.name], "")
                  ELSE Tok(r.t, "NAME", r.name))
          ELSE CASE ch = ":" -> Tok(t1, "COLON", "")
                 [] ch = "," -> Tok(t1, "COMMA", "")
                 [] ch = "/" -> IfEqual(t1, "DIVIDEEQUAL", "DIVIDE")
                 [] ch = "{" -> Tok(t1, "LBRACE", "")
                 [] ch = "[" -> Tok(t1, "LBRACKET", "")
                 [] ch = "(" -> Tok(t1, "LPAREN", "")
                 [] ch = "-" -> IfEqual(t1, "MINUSEQUAL", "MINUS")
                 [] ch = "%" -> IfEqual(t1, "MODULOEQUAL", "MODULO")
                 [] ch = "+" -> IfEqual(t1, "PLUSEQUAL", "PLUS")
                 [] ch = "}" -> Tok(t1, "RBRACE", "")
                 [] ch = "]" -> Tok(t1, "RBRACKET", "")
                 [] ch = ")" -> Tok(t1, "RPAREN", "")
                 [] ch = "*" -> IfEqual(t1, "TIMESEQUAL", "TIMES")
                 [] ch = "?" -> Tok(t1, "QUESTION", "")
                 [] ch = "=" -> IfEqual(t1, "EQUAL", "ASSIGN")
                 [] ch = "!" -> IF t1.ch = "=" THEN Tok(Tokenizer_next(t1), "NOTEQUAL", "")
                                ELSE Tok(t1, "ILLEGAL", "expected != instead of !" \o t1.ch)
                 [] ch = "<" -> IfEqual(t1, "LTE", "LT")
                 [] ch = ">" -> IfEqual(t1, "GTE", "GT")
                 [] ch = "." -> IF t1.ch = "."
                                THEN Let(Tokenizer_next(t1), LAMBDA t2 :
                                        IF t2.ch # "." THEN Tok(t2, "ILLEGAL", "unexpected ..")
                                        ELSE Tok(Tokenizer_next(t2), "ELLIPSIS", ""))
                                ELSE Tok(t1, "DOT", "")
                 [] IsDigit(ch) -> scanNumber(t1, <<ch>>, FALSE)
                 [] ch = "\"" -> scanString(t1, "\"", "")
                 [] ch = "'" -> scanString(t1, "'", "")
                 [] OTHER -> Tok(t1, "ILLEGAL", "unexpected " \o ch))))

(***************************************************************************)
(* Parser (parser.go 1-630).  The parser struct is a record; a parse      *)
(* error in flight (the panic(Error{...}) of parser.error) is its field   *)
(* perr, and every step is skipped while an error is in flight.  The node *)
(* a parse function returns is the field out.                             *)
(***************************************************************************)

Failed(p) == p.perr.k # "nil"
Out(p, node) == [p EXCEPT !.out = node]

\* a panic in flight matches no token
parser_error(p, msg) ==
    IF Failed(p) THEN p ELSE [p EXCEPT !.perr = Error(msg), !.tok = "PANIC"]

RECURSIVE parse(_)
parser_next(p) ==
    IF Failed(p) THEN p
    ELSE Let(parse(<<"Tokenizer_Next", p.tokenizer>>), LAMBDA r :
             Let([p EXCEPT !.tokenizer = r.t, !.tok = r.tok, !.val = r.val], LAMBDA p1 :
            IF r.tok = "ILLEGAL" THEN parser_error(p1, r.val) ELSE p1))

expect(p, tok) ==
    IF Failed(p) THEN p
    ELSE IF p.tok # tok
         THEN parser_error(p, "expected " \o tokenNames[tok] \o " and not " \o tokenNames[p.tok])
         ELSE parser_next(p)

\* strconv.Atoi on the characters of an INT token
RECURSIVE Atoi(_)
Atoi(runes) ==
    IF runes = <<>> THEN 0
    ELSE 10 * Atoi(SubSeq(runes, 1, Len(runes) - 1)) + DigitValue(runes[Len(runes)])

RECURSIVE Pow10(_)
Pow10(k) == IF k = 0 THEN 1 ELSE 10 * Pow10(k - 1)

\* strconv.ParseFloat on the characters of a FLOAT token (digits '.' digits)
ParseFloat(runes) ==
    Let(CHOOSE i \in 1..Len(runes) : runes[i] = ".", LAMBDA dot :
        Let(SubSeq(runes, 1, dot - 1) \o SubSeq(runes, dot + 1, Len(runes)), LAMBDA digits :
       FloatV(Atoi(digits), Pow10(Len(runes) - dot))))

RECURSIVE statement(_)
RECURSIVE statementsUntil(_, _, _)
RECURSIVE block(_)
RECURSIVE if_(_)
RECURSIVE while(_)
RECURSIVE for_(_)
RECURSIVE tryCatch(_)
RECURSIVE return_(_)
RECURSIVE fun_(_)
RECURSIVE binary(_, _, _)
RECURSIVE xor(_)
RECURSIVE and(_)
RECURSIVE equality(_)
RECURSIVE comparison(_)
RECURSIVE addition(_)
RECURSIVE multiply(_)
RECURSIVE expression(_)
RECURSIVE not(_)
RECURSIVE ternary(_)
RECURSIVE negative(_)
RECURSIVE call(_)
RECURSIVE callLoop(_)
RECURSIVE argsLoop(_, _, _, _)
RECURSIVE primary(_)
RECURSIVE list(_)
RECURSIVE listLoop(_, _, _)
RECURSIVE map_(_)
RECURSIVE mapLoop(_, _, _)
RECURSIVE mapKey(_)

\* the loop `for p.tok != ... { statements = append(statements, p.statement()) }`
\* of parser.statements and parser.block; stops holds the tokens that end it
statementsUntil(p, stops, acc) ==
    IF p.tok \in stops THEN Out(p, acc)
    ELSE IF Failed(p) THEN p
    ELSE Let(parse(<<"statement", p>>), LAMBDA s :
            statementsUntil(s, stops, Append(acc, s.out)))

\* parser.statements
statements(p, end) == statementsUntil(p, {end, "EOF"}, <<>>)

\* parser.program
program(p) == statements(p, "EOF")

\* parser.statement
statement(p) ==
         CASE p.tok = "IF" -> parse(<<"if_", p>>)
           [] p.tok = "WHILE" -> parse(<<"while", p>>)
           [] p.tok = "FOR" -> parse(<<"for_", p>>)
           [] p.tok = "RETURN" -> parse(<<"return_", p>>)
           [] p.tok = "BREAK" -> Out(expect(p, "BREAK"), Break)
           [] p.tok = "CONTINUE" -> Out(expect(p, "CONTINUE"), Continue)
           [] p.tok = "IMPORT" ->
              Let(expect(p, "IMPORT"), LAMBDA p1 :
                 IF Failed(p1) THEN p1
                 ELSE IF p1.tok # "STR"
                      THEN parser_error(p1, "expected string filename after import, got "
                                            \o tokenNames[p1.tok])
                      ELSE Out(parser_next(p1), Import(p1.val)))
           [] p.tok = "FUN" -> parse(<<"fun_", p>>)
           [] p.tok = "TRY" -> parse(<<"tryCatch", p>>)
           [] OTHER ->
              Let(parse(<<"expression", p>>), LAMBDA expr :
                 IF Failed(expr) THEN expr
                 ELSE IF expr.tok = "ASSIGN"
                      THEN IF expr.out.n \in {"Variable", "Subscript"}
                           THEN Let(parse(<<"expression", parser_next(expr)>>), LAMBDA value :
                                   IF Failed(value) THEN value
                                   ELSE Out(value, Assign(expr.out, value.out)))
                           ELSE parser_error(expr,
                                    "expected name, subscript, or dot expression on left side of =")
                      ELSE Out(expr, ExpressionStatement(expr.out)))

\* parser.block
block(p) ==
    IF Failed(p) THEN p
    ELSE CASE p.tok = "LBRACE" ->
              Let(parse(<<"statements", expect(p, "LBRACE"), "RBRACE">>), LAMBDA body :
                 IF Failed(body) THEN body ELSE Out(expect(body, "RBRACE"), body.out))
           [] p.tok = "COLON" ->
              Let(statementsUntil(expect(p, "COLON"), {"END", "ELSE", "CATCH", "EOF"}, <<>>), LAMBDA body :
                 IF Failed(body) THEN body
                 ELSE IF body.tok = "END" THEN Out(expect(body, "END"), body.out)
                 ELSE body)
           [] OTHER -> parser_error(p, "expected { or :, not " \o tokenNames[p.tok])

\* parser.if_
if_(p) ==
    Let(parse(<<"expression", expect(expect(p, "IF"), "LPAREN")>>), LAMBDA c :
        Let(parse(<<"block", expect(expect(c, "RPAREN"), "THEN")>>), LAMBDA body :
       IF Failed(body) THEN body
       ELSE IF body.tok = "ELSE"
            THEN Let(parser_next(body), LAMBDA p1 :
                    IF Failed(p1) THEN p1
                    ELSE IF p1.tok \in {"LBRACE", "COLON"}
                         THEN Let(parse(<<"block", p1>>), LAMBDA e :
                                 IF Failed(e) THEN e ELSE Out(e, If(c.out, body.out, e.out)))
                    ELSE IF p1.tok = "IF"
                         THEN Let(parse(<<"if_", p1>>), LAMBDA e :
                                 IF Failed(e) THEN e ELSE Out(e, If(c.out, body.out, <<e.out>>)))
                    ELSE parser_error(p1, "expected { or : or if after else, not "
                                          \o tokenNames[p1.tok]))
            ELSE Out(body, If(c.out, body.out, <<>>))))

\* parser.while
while(p) ==
    Let(parse(<<"expression", expect(expect(p, "WHILE"), "LPAREN")>>), LAMBDA c :
        Let(parse(<<"block", expect(c, "RPAREN")>>), LAMBDA body :
       IF Failed(body) THEN body ELSE Out(body, While(c.out, body.out))))

\* parser.for_
for_(p) ==
    Let(expect(expect(p, "FOR"), "LPAREN"), LAMBDA p1 :
        Let(parse(<<"expression", expect(expect(p1, "NAME"), "IN")>>), LAMBDA it :
        Let(parse(<<"block", expect(it, "RPAREN")>>), LAMBDA body :
       IF Failed(body) THEN body ELSE Out(body, For(p1.val, it.out, body.out)))))

\* parser.tryCatch
tryCatch(p) ==
    Let(expect(p, "TRY"), LAMBDA p1 :
        Let(IF Failed(p1) THEN p1
               ELSE CASE p1.tok = "LBRACE" ->
                         Let(parse(<<"statements", expect(p1, "LBRACE"), "RBRACE">>), LAMBDA b :
                            IF Failed(b) THEN b ELSE Out(expect(b, "RBRACE"), b.out))
                      [] p1.tok = "COLON" -> parse(<<"statements", expect(p1, "COLON"), "CATCH">>)
                      [] OTHER -> parser_error(p1, "expected { or :, not " \o tokenNames[p1.tok]), LAMBDA try :
        Let(expect(expect(try, "CATCH"), "LPAREN"), LAMBDA p2 :
        Let(parse(<<"block", expect(expect(p2, "NAME"), "RPAREN")>>), LAMBDA catch :
       IF Failed(catch) THEN catch ELSE Out(catch, TryCatch(try.out, p2.val, catch.out))))))

\* parser.return_
return_(p) ==
    Let(parse(<<"expression", expect(p, "RETURN")>>), LAMBDA r :
       IF Failed(r) THEN r ELSE Out(r, Return(r.out)))

\* the loop of parser.params; out is [params, ellipsis]
RECURSIVE paramsLoop(_, _, _, _)
paramsLoop(p, ps, gotComma, gotEllipsis) ==
    IF Failed(p) THEN p
    ELSE IF p.tok # "RPAREN" /\ p.tok # "EOF" /\ ~gotEllipsis
    THEN IF ~gotComma THEN parser_error(p, "expected , between parameters")
         ELSE Let(expect(p, "NAME"), LAMBDA p1 :
                  Let(p1.tok = "ELLIPSIS", LAMBDA ell :
                  Let(IF ell THEN parser_next(p1) ELSE p1, LAMBDA p2 :
                 IF Failed(p2) THEN p2
                 ELSE IF p2.tok = "COMMA"
                      THEN paramsLoop(parser_next(p2), Append(ps, p.val), TRUE, ell)
                      ELSE paramsLoop(p2, Append(ps, p.val), FALSE, ell))))
    ELSE IF p.tok # "RPAREN" /\ gotEllipsis
         THEN parser_error(p, "can only have ... after last parameter")
         ELSE Out(expect(p, "RPAREN"), [params |-> ps, ellipsis |-> gotEllipsis])

\* parser.params
params(p) == paramsLoop(expect(p, "LPAREN"), <<>>, TRUE, FALSE)

\* parser.fun_
fun_(p) ==
    Let(expect(p, "FUN"), LAMBDA p1 :
       IF Failed(p1) THEN p1
       ELSE IF p1.tok = "NAME"
            THEN Let(params(parser_next(p1)), LAMBDA ps :
                     Let(parse(<<"block", ps>>), LAMBDA body :
                    IF Failed(body) THEN body
                    ELSE Out(body, [FunctionDefinition(p1.val, ps.out.params, body.out)
                                      EXCEPT !.Ellipsis = ps.out.ellipsis])))
            ELSE Let(params(p1), LAMBDA ps :
                     Let(parse(<<"block", ps>>), LAMBDA body :
                    IF Failed(body) THEN body
                    ELSE Out(body, ExpressionStatement(
                                 [FunctionExpression(ps.out.params, body.out)
                                    EXCEPT !.Ellipsis = ps.out.ellipsis])))))

\* parser.binary after its first operand (in p.out): the loop
\* `for p.matches(operators...)`; parseFunc names the level of the operands
binary(p, parseFunc, operators) ==
    IF p.tok \notin operators THEN p
    ELSE Let(parse(<<parseFunc, parser_next(p)>>), LAMBDA right :
            binary(Out(right, Binary(p.out, p.tok, right.out)), parseFunc, operators))

\* parser.negative
negative(p) ==
    IF p.tok = "MINUS"
    THEN Let(negative(parser_next(p)), LAMBDA operand :
            Out(operand, Unary("MINUS", operand.out)))
    ELSE call(p)

\* parser.multiply
multiply(p) == binary(negative(p), "negative", {"TIMES", "DIVIDE", "MODULO"})

\* parser.addition
addition(p) == binary(multiply(p), "multiply", {"PLUS", "MINUS"})

\* parser.comparison
comparison(p) == binary(addition(p), "addition", {"LT", "LTE", "GT", "GTE", "IN"})

\* parser.equality
equality(p) == binary(comparison(p), "comparison", {"EQUAL", "NOTEQUAL"})

\* parser.ternary
ternary(p) ==
    Let(equality(p), LAMBDA expr :
       IF expr.tok # "QUESTION" THEN expr
       ELSE Let(parse(<<"expression", parser_next(expr)>>), LAMBDA trueExpr :
               IF Failed(trueExpr) THEN trueExpr
               ELSE IF trueExpr.tok # "COLON"
                    THEN parser_error(trueExpr, "expected : in ternary expression")
                    ELSE Let(parse(<<"expression", parser_next(trueExpr)>>), LAMBDA falseExpr :
                            Out(falseExpr, Ternary(expr.out, trueExpr.out, falseExpr.out)))))

\* parser.not
not(p) ==
    IF p.tok = "NOT"
    THEN Let(not(parser_next(p)), LAMBDA operand :
            Out(operand, Unary("NOT", operand.out)))
    ELSE ternary(p)

\* parser.and
and(p) == binary(not(p), "not", {"AND"})

\* parser.xor
xor(p) == binary(and(p), "and", {"XOR"})

\* parser.expression
expression(p) == binary(xor(p), "xor", {"OR"})

\* the argument loop of parser.call; out is [args, ellipsis]
argsLoop(p, args, gotComma, gotEllipsis) ==
    IF Failed(p) THEN p
    ELSE IF p.tok # "RPAREN" /\ p.tok # "EOF" /\ ~gotEllipsis
    THEN IF ~gotComma THEN parser_error(p, "expected , between arguments")
         ELSE Let(parse(<<"expression", p>>), LAMBDA arg :
                  Let(arg.tok = "ELLIPSIS", LAMBDA ell :
                  Let(IF ell THEN parser_next(arg) ELSE arg, LAMBDA p2 :
                 IF Failed(p2) THEN p2
                 ELSE IF p2.tok = "COMMA"
                      THEN argsLoop(parser_next(p2), Append(args, arg.out), TRUE, ell)
                      ELSE argsLoop(p2, Append(args, arg.out), FALSE, ell))))
    ELSE IF p.tok # "RPAREN" /\ gotEllipsis
         THEN parser_error(p, "can only have ... after last argument")
         ELSE Out(expect(p, "RPAREN"), [args |-> args, ellipsis |-> gotEllipsis])

\* parser.call
call(p) == callLoop(primary(p))

\* the loop `for p.matches(LPAREN, LBRACKET, DOT)` of parser.call
callLoop(p) ==
    IF p.tok \notin {"LPAREN", "LBRACKET", "DOT"} THEN p
    ELSE CASE p.tok = "LPAREN" ->
              Let(argsLoop(parser_next(p), <<>>, TRUE, FALSE), LAMBDA a :
                 IF Failed(a) THEN a
                 ELSE callLoop(Out(a, [Call(p.out, a.out.args) EXCEPT !.Ellipsis = a.out.ellipsis])))
           [] p.tok = "LBRACKET" ->
              Let(parse(<<"expression", parser_next(p)>>), LAMBDA subscript :
                  Let(expect(subscript, "RBRACKET"), LAMBDA p1 :
                 IF Failed(p1) THEN p1
                 ELSE callLoop(Out(p1, Subscript(p.out, subscript.out)))))
           [] OTHER ->
              Let(parser_next(p), LAMBDA p1 :
                  Let(expect(p1, "NAME"), LAMBDA p2 :
                 IF Failed(p2) THEN p2
                 ELSE callLoop(Out(p2, Subscript(p.out, Literal(StrV(p1.val)))))))

\* parser.primary
primary(p) ==
         CASE p.tok = "NAME" -> Out(parser_next(p), Variable(p.val))
           [] p.tok = "INT" -> Out(parser_next(p), Literal(IntV(Atoi(p.val))))
           [] p.tok = "FLOAT" -> Out(parser_next(p), Literal(ParseFloat(p.val)))
           [] p.tok = "STR" -> Out(parser_next(p), Literal(StrV(p.val)))
           [] p.tok = "TRUE" -> Out(parser_next(p), Literal(BoolV(TRUE)))
           [] p.tok = "FALSE" -> Out(parser_next(p), Literal(BoolV(FALSE)))
           [] p.tok = "NULL" -> Out(parser_next(p), Literal(NullV))
           [] p.tok = "LBRACKET" -> list(p)
           [] p.tok = "LBRACE" -> map_(p)
           [] p.tok = "FUN" ->
              Let(params(parser_next(p)), LAMBDA args :
                  Let(parse(<<"block", args>>), LAMBDA body :
                 IF Failed(body) THEN body
                 ELSE Out(body, [FunctionExpression(args.out.params, body.out)
                                   EXCEPT !.Ellipsis = args.out.ellipsis])))
           [] p.tok = "LPAREN" ->
              Let(parse(<<"expression", parser_next(p)>>), LAMBDA expr :
                 IF Failed(expr) THEN expr ELSE Out(expect(expr, "RPAREN"), expr.out))
           [] OTHER -> parser_error(p, "expected expression, not " \o tokenNames[p.tok])

\* the loop of parser.list
listLoop(p, values, gotComma) ==
    IF Failed(p) THEN p
    ELSE IF p.tok # "RBRACKET" /\ p.tok # "EOF"
    THEN IF ~gotComma THEN parser_error(p, "expected , between list elements")
         ELSE Let(parse(<<"expression", p>>), LAMBDA value :
                 IF Failed(value) THEN value
                 ELSE IF value.tok = "COMMA"
                      THEN listLoop(parser_next(value), Append(values, value.out), TRUE)
                      ELSE listLoop(value, Append(values, value.out), FALSE))
    ELSE Out(expect(p, "RBRACKET"), List(values))

\* parser.list
list(p) == listLoop(expect(p, "LBRACKET"), <<>>, TRUE)

\* the loop of parser.map_
mapLoop(p, items, gotComma) ==
    IF Failed(p) THEN p
    ELSE IF p.tok # "RBRACE" /\ p.tok # "EOF"
    THEN IF ~gotComma THEN parser_error(p, "expected , between object items")
         ELSE Let(parse(<<"mapKey", p>>), LAMBDA key :
                  Let(parse(<<"expression", expect(key, "COLON")>>), LAMBDA value :
                 IF Failed(value) THEN value
                 ELSE IF value.tok = "COMMA"
                      THEN parse(<<"mapLoop", parser_next(value), Append(items, <<key.out, value.out>>), TRUE>>)
                      ELSE parse(<<"mapLoop", value, Append(items, <<key.out, value.out>>), FALSE>>)))
    ELSE Out(expect(p, "RBRACE"), Map(items))

\* parser.map_
map_(p) == parse(<<"mapLoop", expect(p, "LBRACE"), <<>>, TRUE>>)

\* parser.mapKey
mapKey(p) ==
    IF Failed(p) THEN p
    ELSE IF p.tok = "NAME" THEN Out(parser_next(p), Literal(StrV(p.val)))
    ELSE parse(<<"expression", p>>)

\* the calls between the parser's mutually recursive functions: fn names the
\* callee and a holds its arguments
parse(a) ==
    CASE a[1] = "Tokenizer_Next" -> Tokenizer_Next(a[2])
      [] a[1] = "statement" -> statement(a[2])
      [] a[1] = "statements" -> statements(a[2], a[3])
      [] a[1] = "block" -> block(a[2])
      [] a[1] = "if_" -> if_(a[2])
      [] a[1] = "while" -> while(a[2])
      [] a[1] = "for_" -> for_(a[2])
      [] a[1] = "tryCatch" -> tryCatch(a[2])
      [] a[1] = "return_" -> return_(a[2])
      [] a[1] = "fun_" -> fun_(a[2])
      [] a[1] = "xor" -> xor(a[2])
      [] a[1] = "and" -> and(a[2])
      [] a[1] = "equality" -> equality(a[2])
      [] a[1] = "comparison" -> comparison(a[2])
      [] a[1] = "addition" -> addition(a[2])
      [] a[1] = "multiply" -> multiply(a[2])
      [] a[1] = "expression" -> expression(a[2])
      [] a[1] = "not" -> not(a[2])
      [] a[1] = "negative" -> negative(a[2])
      [] a[1] = "mapLoop" -> mapLoop(a[2], a[3], a[4])
      [] a[1] = "mapKey" -> mapKey(a[2])
      [] a[1] = "program" -> program(parser_next(a[2]))

\* ParseProgram: the Program (its Statements) and the error; a parse error
\* leaves the program nil (here <<>>)
ParseProgram(in) ==
    Let(parse(<<"program", [tokenizer |-> NewTokenizer(in), tok |-> "ILLEGAL",
                            val |-> "", perr |-> NilError, out |-> <<>>]>>), LAMBDA p :
       IF Failed(p) THEN [prog |-> <<>>, err |-> p.perr]
       ELSE [prog |-> p.out, err |-> NilError])
(***************************************************************************)
(* Programs handed to Execute.  Each is a Program as ParseProgram builds   *)
(* it from the source text quoted above it.                                *)
(***************************************************************************)
IntLit(i) == Literal(IntV(i))
StrLit(x) == Literal(StrV(x))
BoolLit(b) == Literal(BoolV(b))
Var(x) == Variable(x)
CallStmt(f, args) == ExpressionStatement(Call(Var(f), args))
Program(name, family, stmts) ==
    [kind |-> "program", name |-> name, family |-> family, Statements |-> stmts]

\* fun make_counter(): count = 0  return fun(): count = count + 1 return count end end
MakeCounter ==
    FunctionDefinition("make_counter", <<>>, <<
        Assign(Var("count"), IntLit(0)),
        Return(FunctionExpression(<<>>, <<
            Assign(Var("count"), Binary(Var("count"), "PLUS", IntLit(1))),
            Return(Var("count")) >>)) >>)

\* spec section 8, scenario 2:
\* fun main(): a = make_counter() b = make_counter()
\*             print(a()) print(a()) print(b()) print(a()) end
ProgClosureCounter ==
    Program("closure_counter", "closure", <<
        MakeCounter,
        FunctionDefinition("main", <<>>, <<
            Assign(Var("a"), Call(Var("make_counter"), <<>>)),
            Assign(Var("b"), Call(Var("make_counter"), <<>>)),
            CallStmt("print", <<Call(Var("a"), <<>>)>>),
            CallStmt("print", <<Call(Var("a"), <<>>)>>),
            CallStmt("print", <<Call(Var("b"), <<>>)>>),
            CallStmt("print", <<Call(Var("a"), <<>>)>>) >>) >>)

\* the same counter used from the top level (README.md 638-656)
ProgClosureCounterTop ==
    Program("closure_counter_top", "closure", <<
        MakeCounter,
        Assign(Var("counter1"), Call(Var("make_counter"), <<>>)),
        Assign(Var("counter2"), Call(Var("make_counter"), <<>>)),
        CallStmt("print", <<Call(Var("counter1"), <<>>)>>),
        CallStmt("print", <<Call(Var("counter1"), <<>>)>>),
        CallStmt("print", <<Call(Var("counter2"), <<>>)>>),
        CallStmt("print", <<Call(Var("counter1"), <<>>)>>) >>)

\* a closure reads the variable it captured:
\* fun make_adder(k): return fun(x): return x + k end end
\* add = make_adder(K)   print(add(X))
ProgAdder(k, x) ==
    Program("adder", "closure", <<
        FunctionDefinition("make_adder", <<"k">>, <<
            Return(FunctionExpression(<<"x">>, <<
                Return(Binary(Var("x"), "PLUS", Var("k"))) >>)) >>),
        Assign(Var("add"), Call(Var("make_adder"), <<IntLit(k)>>)),
        CallStmt("print", <<Call(Var("add"), <<IntLit(x)>>)>>) >>)

\* fun callee(): return secret end
\* fun caller(): secret = 7  return callee() end
\* print(caller())
ProgCallerLocal ==
    Program("caller_local", "lexical", <<
        FunctionDefinition("callee", <<>>, <<Return(Var("secret"))>>),
        FunctionDefinition("caller", <<>>, <<
            Assign(Var("secret"), IntLit(7)),
            Return(Call(Var("callee"), <<>>)) >>),
        CallStmt("print", <<Call(Var("caller"), <<>>)>>) >>)

\* the binding is a parameter of a function two calls up the stack:
\* fun callee(): return secret end
\* fun mid(): return callee() end
\* fun caller(secret): return mid() end
\* print(caller(7))
ProgCallerParam ==
    Program("caller_param", "lexical", <<
        FunctionDefinition("callee", <<>>, <<Return(Var("secret"))>>),
        FunctionDefinition("mid", <<>>, <<Return(Call(Var("callee"), <<>>))>>),
        FunctionDefinition("caller", <<"secret">>, <<Return(Call(Var("mid"), <<>>))>>),
        CallStmt("print", <<Call(Var("caller"), <<IntLit(7)>>)>>) >>)

\* the name is bound nowhere:
\* fun callee(): return secret end
\* fun caller(): other = 7  return callee() end
\* print(caller())
ProgUnbound ==
    Program("unbound", "lexical", <<
        FunctionDefinition("callee", <<>>, <<Return(Var("secret"))>>),
        FunctionDefinition("caller", <<>>, <<
            Assign(Var("other"), IntLit(7)),
            Return(Call(Var("callee"), <<>>)) >>),
        CallStmt("print", <<Call(Var("caller"), <<>>)>>) >>)

\* a free name resolved through the global frame:
\* secret = 3   fun callee(): return secret end   print(callee())
ProgGlobalName ==
    Program("global_name", "lexical", <<
        Assign(Var("secret"), IntLit(3)),
        FunctionDefinition("callee", <<>>, <<Return(Var("secret"))>>),
        CallStmt("print", <<Call(Var("callee"), <<>>)>>) >>)

\* x = 1   fun f(): x = 2  return x end   print(f())   print(x)
ProgAssignLocal ==
    Program("assign_local", "assign", <<
        Assign(Var("x"), IntLit(1)),
        FunctionDefinition("f", <<>>, <<
            Assign(Var("x"), IntLit(2)),
            Return(Var("x")) >>),
        CallStmt("print", <<Call(Var("f"), <<>>)>>),
        CallStmt("print", <<Var("x")>>) >>)

\* fun g(): try: return 1 catch (e): end end
\* fun f(): g()  x = 5  return 0 end
\* f()
ProgAssignAfterTryReturn ==
    Program("assign_after_try_return", "assign", <<
        FunctionDefinition("g", <<>>, <<
            TryCatch(<<Return(IntLit(1))>>, "e", <<>>) >>),
        FunctionDefinition("f", <<>>, <<
            CallStmt("g", <<>>),
            Assign(Var("x"), IntLit(5)),
            Return(IntLit(0)) >>),
        CallStmt("f", <<>>) >>)

\* fun f(): try: return 1 catch (e): print("caught") end return 2 end
\* print(f())
ProgTryReturn ==
    Program("try_return", "try", <<
        FunctionDefinition("f", <<>>, <<
            TryCatch(<<Return(IntLit(1))>>, "e", <<CallStmt("print", <<StrLit("caught")>>)>>),
            Return(IntLit(2)) >>),
        CallStmt("print", <<Call(Var("f"), <<>>)>>) >>)

\* try: x = A / B  catch (e): print(e) end      (spec section 8, scenario 4)
ProgTryDivide(a, b) ==
    Program("try_divide", "try", <<
        TryCatch(<<Assign(Var("x"), Binary(IntLit(a), "DIVIDE", IntLit(b)))>>, "e",
                 <<CallStmt("print", <<Var("e")>>)>>) >>)

\* fun safe(): try: return 1 / 0 catch (e): return 0 end end
\* print(safe())
ProgCatchReturn ==
    Program("catch_return", "try", <<
        FunctionDefinition("safe", <<>>, <<
            TryCatch(<<Return(Binary(IntLit(1), "DIVIDE", IntLit(0)))>>, "e",
                     <<Return(IntLit(0))>>) >>),
        CallStmt("print", <<Call(Var("safe"), <<>>)>>) >>)

\* try: x = 1 / 0  catch (e): y = missing end
ProgCatchError ==
    Program("catch_error", "try", <<
        TryCatch(<<Assign(Var("x"), Binary(IntLit(1), "DIVIDE", IntLit(0)))>>, "e",
                 <<Assign(Var("y"), Var("missing"))>>) >>)

\* try:
\*     try: x = 1 / 0  catch (e): y = missing end
\* catch (e2): print(e2) end
ProgCatchErrorNested ==
    Program("catch_error_nested", "try", <<
        TryCatch(<<
            TryCatch(<<Assign(Var("x"), Binary(IntLit(1), "DIVIDE", IntLit(0)))>>, "e",
                     <<Assign(Var("y"), Var("missing"))>>) >>,
            "e2", <<CallStmt("print", <<Var("e2")>>)>>) >>)

\* fun f(): x = missing end
\* try: f() catch (e): print(e) end
ProgErrorInCall ==
    Program("error_in_call", "try", <<
        FunctionDefinition("f", <<>>, <<Assign(Var("x"), Var("missing"))>>),
        TryCatch(<<CallStmt("f", <<>>)>>, "e", <<CallStmt("print", <<Var("e")>>)>>) >>)

\* i = 0
\* while (i < N):
\*     i = i + 1
\*     try: break catch (e): print(e) end
\* end
\* print(i)
ProgTryBreak(n) ==
    Program("try_break", "try", <<
        Assign(Var("i"), IntLit(0)),
        While(Binary(Var("i"), "LT", IntLit(n)), <<
            Assign(Var("i"), Binary(Var("i"), "PLUS", IntLit(1))),
            TryCatch(<<Break>>, "e", <<CallStmt("print", <<Var("e")>>)>>) >>),
        CallStmt("print", <<Var("i")>>) >>)

\* for (x in [1, 2, 3]):
\*     try: continue catch (e): print(e) end
\*     print(x)
\* end
ProgTryContinue ==
    Program("try_continue", "try", <<
        For("x", List(<<IntLit(1), IntLit(2), IntLit(3)>>), <<
            TryCatch(<<Continue>>, "e", <<CallStmt("print", <<Var("e")>>)>>),
            CallStmt("print", <<Var("x")>>) >>) >>)

\* loop_control_test.go 16-30, with the bound and the break point as inputs:
\* i = 0
\* while (i < N): i = i + 1  if (i == K) then: break end  print(i) end
ProgWhileBreak(n, k) ==
    Program("while_break", "loop", <<
        Assign(Var("i"), IntLit(0)),
        While(Binary(Var("i"), "LT", IntLit(n)), <<
            Assign(Var("i"), Binary(Var("i"), "PLUS", IntLit(1))),
            If(Binary(Var("i"), "EQUAL", IntLit(k)), <<Break>>, <<>>),
            CallStmt("print", <<Var("i")>>) >>) >>)

\* loop_control_test.go 63-76:
\* for (num in [1, 2, 3, 4]): if (num == K) then: continue end  print(num) end
ProgForContinue(k) ==
    Program("for_continue", "loop", <<
        For("num", List(<<IntLit(1), IntLit(2), IntLit(3), IntLit(4)>>), <<
            If(Binary(Var("num"), "EQUAL", IntLit(k)), <<Continue>>, <<>>),
            CallStmt("print", <<Var("num")>>) >>) >>)

\* loop_control_test.go 78-96:
\* i = 1
\* while (i <= N):
\*     j = 1
\*     while (j <= 3):
\*         if (j == K) then: break end
\*         print(i * 10 + j)
\*         j = j + 1
\*     end
\*     i = i + 1
\* end
ProgNestedBreak(n, k) ==
    Program("nested_break", "loop", <<
        Assign(Var("i"), IntLit(1)),
        While(Binary(Var("i"), "LTE", IntLit(n)), <<
            Assign(Var("j"), IntLit(1)),
            While(Binary(Var("j"), "LTE", IntLit(3)), <<
                If(Binary(Var("j"), "EQUAL", IntLit(k)), <<Break>>, <<>>),
                CallStmt("print", <<Binary(Binary(Var("i"), "TIMES", IntLit(10)), "PLUS", Var("j"))>>),
                Assign(Var("j"), Binary(Var("j"), "PLUS", IntLit(1))) >>),
            Assign(Var("i"), Binary(Var("i"), "PLUS", IntLit(1))) >>) >>)

\* for (i in [1, 2]):
\*     for (j in [1, 2, 3]):
\*         if (j == K) then: continue end
\*         print(i * 10 + j)
\*     end
\* end
ProgNestedContinue(k) ==
    Program("nested_continue", "loop", <<
        For("i", List(<<IntLit(1), IntLit(2)>>), <<
            For("j", List(<<IntLit(1), IntLit(2), IntLit(3)>>), <<
                If(Binary(Var("j"), "EQUAL", IntLit(k)), <<Continue>>, <<>>),
                CallStmt("print", <<Binary(Binary(Var("i"), "TIMES", IntLit(10)), "PLUS", Var("j"))>>)
            >>) >>) >>)

\* the break sits in a try block of the inner loop body:
\* for (i in [1, 2]):
\*     for (j in [1, 2, 3]):
\*         try:
\*             if (j == 2) then: break end
\*         catch (e): print(e) end
\*         print(i * 10 + j)
\*     end
\* end
ProgNestedBreakInTry ==
    Program("nested_break_in_try", "loop", <<
        For("i", List(<<IntLit(1), IntLit(2)>>), <<
            For("j", List(<<IntLit(1), IntLit(2), IntLit(3)>>), <<
                TryCatch(<<If(Binary(Var("j"), "EQUAL", IntLit(2)), <<Break>>, <<>>)>>,
                         "e", <<CallStmt("print", <<Var("e")>>)>>),
                CallStmt("print", <<Binary(Binary(Var("i"), "TIMES", IntLit(10)), "PLUS", Var("j"))>>)
            >>) >>) >>)

\* loop_control_test.go 155-187 and their try/catch variants
ProgBreakTop == Program("break_top", "escape", <<Break>>)
ProgContinueTop == Program("continue_top", "escape", <<Continue>>)
ProgBreakInFunction ==
    Program("break_in_function", "escape", <<
        FunctionDefinition("test", <<>>, <<Break>>), CallStmt("test", <<>>) >>)
ProgContinueInFunction ==
    Program("continue_in_function", "escape", <<
        FunctionDefinition("test", <<>>, <<Continue>>), CallStmt("test", <<>>) >>)
\* try: break catch (e): x = 1 end
ProgBreakInTryTop ==
    Program("break_in_try_top", "escape", <<
        TryCatch(<<Break>>, "e", <<Assign(Var("x"), IntLit(1))>>) >>)
\* try: continue catch (e): x = 1 end
ProgContinueInTryTop ==
    Program("continue_in_try_top", "escape", <<
        TryCatch(<<Continue>>, "e", <<Assign(Var("x"), IntLit(1))>>) >>)
\* return V
ProgReturnTop(v) == Program("return_top", "escape", <<Return(IntLit(v))>>)
\* try: return 1 catch (e): x = 1 end
ProgReturnInTryTop ==
    Program("return_in_try_top", "escape", <<
        TryCatch(<<Return(IntLit(1))>>, "e", <<Assign(Var("x"), IntLit(1))>>) >>)
\* if (true) then: return 1 end
ProgReturnInIfTop ==
    Program("return_in_if_top", "escape", <<
        If(BoolLit(TRUE), <<Return(IntLit(1))>>, <<>>) >>)

\* fun f(): print("f") return RET end
\* l = LEFT
\* r = l OP f()
ProgShortCircuit(op, left, ret) ==
    Program("short_circuit", "short_circuit", <<
        FunctionDefinition("f", <<>>, <<
            CallStmt("print", <<StrLit("f")>>), Return(BoolLit(ret)) >>),
        Assign(Var("l"), left),
        Assign(Var("r"), Binary(Var("l"), op, Call(Var("f"), <<>>))) >>)

\* fun f(): print("f") return true end
\* r = LEFT OP f()
ProgShortCircuitLiteral(op, b) ==
    Program("short_circuit_literal", "short_circuit", <<
        FunctionDefinition("f", <<>>, <<
            CallStmt("print", <<StrLit("f")>>), Return(BoolLit(TRUE)) >>),
        Assign(Var("l"), BoolLit(b)),
        Assign(Var("r"), Binary(BoolLit(b), op, Call(Var("f"), <<>>))) >>)

\* x = X   r = not x
ProgNot(x) ==
    Program("not", "logic_not", <<
        Assign(Var("x"), x),
        Assign(Var("r"), Unary("NOT", Var("x"))) >>)

\* x = X   y = Y   r = x OP y
ProgLogic(op, x, y) ==
    Program("logic", "logic_binary", <<
        Assign(Var("x"), x),
        Assign(Var("y"), y),
        Assign(Var("r"), Binary(Var("x"), op, Var("y"))) >>)

\* the operand expressions of the logical-operator programs: null, true,
\* false, 0, 1, "", "a", [], [1] and the built-in function print
OperandExprs ==
    {Literal(NullV), BoolLit(TRUE), BoolLit(FALSE), IntLit(0), IntLit(1),
     StrLit(""), StrLit("a"), List(<<>>), List(<<IntLit(1)>>), Var("print")}

\* the left operands of the short-circuit programs: true, false, 1 == 2,
\* 1 < 2, not true
BoolExprs ==
    {BoolLit(TRUE), BoolLit(FALSE), Binary(IntLit(1), "EQUAL", IntLit(2)),
     Binary(IntLit(1), "LT", IntLit(2)), Unary("NOT", BoolLit(TRUE))}

MaxInt == 3

\* fun f(a, b) / fun f(a, b...): print(a, b) end   f(1, .., na)
ParamNames == <<"a", "b", "c", "d">>
MaxParams == 2
MaxArgs == 3
ProgArity(np, variadic, na) ==
    Program("arity", "arity", <<
        [FunctionDefinition("f", SubSeq(ParamNames, 1, np),
            << CallStmt("print", [i \in 1..np |-> Var(ParamNames[i])]) >>)
            EXCEPT !.Ellipsis = variadic],
        CallStmt("f", [i \in 1..na |-> IntLit(i)]) >>)
ArityPrograms ==
    {ProgArity(np, variadic, na) :
        np \in 0..MaxParams, variadic \in BOOLEAN, na \in 0..MaxArgs}

\* programs around the automatic call of main (functions_test.go 183-241)
MainDef(line) == FunctionDefinition("main", <<>>, <<CallStmt("print", <<StrLit(line)>>)>>)
MainPrograms ==
    {Program(p[1], "main", p[2]) : p \in {
        \* fun main(): print("main") end   print("top")
        <<"main", <<MainDef("main"), CallStmt("print", <<StrLit("top")>>)>> >>,
        \* fun main(): print("main") end   print(undefined)
        <<"main_fails", <<MainDef("main"), CallStmt("print", <<Var("undefined")>>)>> >>,
        \* main = 1   print("top")
        <<"main_value", <<Assign(Var("main"), IntLit(1)),
                          CallStmt("print", <<StrLit("top")>>)>> >>,
        \* main = print
        <<"main_builtin", <<Assign(Var("main"), Var("print"))>> >>,
        \* print("top")
        <<"no_main", <<CallStmt("print", <<StrLit("top")>>)>> >>,
        \* fun main(): print("old") end   fun main(): print("main") end
        <<"main_redefined", <<MainDef("old"), MainDef("main")>> >>,
        \* fun f(): fun main(): print("main") end end   f()
        <<"main_local", <<FunctionDefinition("f", <<>>, <<MainDef("main")>>),
                          CallStmt("f", <<>>)>> >>,
        \* fun main(): print("main") end   main()
        <<"main_called", <<MainDef("main"), CallStmt("main", <<>>)>> >> }}

\* programs calling exit (functions.go 1240-1245)
ExitPrograms ==
    {Program(p[1], "exit", p[2]) : p \in {
        \* exit(2)   print("after")
        <<"exit", <<CallStmt("exit", <<IntLit(2)>>),
                    CallStmt("print", <<StrLit("after")>>)>> >>,
        \* exit()   print("after")
        <<"exit_default", <<CallStmt("exit", <<>>),
                            CallStmt("print", <<StrLit("after")>>)>> >>,
        \* fun main(): print("main") end   exit(0)
        <<"exit_main", <<MainDef("main"), CallStmt("exit", <<IntLit(0)>>)>> >>,
        \* fun f(): exit(1) print("in f") end   f()
        <<"exit_in_function",
          <<FunctionDefinition("f", <<>>, <<CallStmt("exit", <<IntLit(1)>>),
                                            CallStmt("print", <<StrLit("in f")>>)>>),
            CallStmt("f", <<>>)>> >>,
        \* try: exit(1) print("in try") catch e: print(e) end
        <<"exit_in_try",
          <<TryCatch(<<CallStmt("exit", <<IntLit(1)>>),
                       CallStmt("print", <<StrLit("in try")>>)>>,
                     "e", <<CallStmt("print", <<Var("e")>>)>>)>> >>,
        \* print(exit(1))
        <<"exit_value", <<CallStmt("print", <<Call(Var("exit"), <<IntLit(1)>>)>>)>> >>,
        \* exit(1, 2)   and   exit("x")
        <<"exit_two_args", <<CallStmt("exit", <<IntLit(1), IntLit(2)>>)>> >>,
        <<"exit_string", <<CallStmt("exit", <<StrLit("x")>>)>> >> }}

\* programs that import (README.md 660-689): by the statement `import F`
\* and by a call of the built-in import
ImportNames == {"lib", "lib.din", "/lib.din"}
ImportStmt(f) == Import(f)
ImportCall(f) == CallStmt("import", <<StrLit(f)>>)
ImportPrograms ==
    {Program("import_statement", "import_resolve", <<ImportStmt(f)>>) : f \in ImportNames}
    \cup {Program("import_builtin", "import_resolve", <<ImportCall(f)>>) : f \in ImportNames}
    \cup {Program(p[1], p[2], p[3]) : p \in {
        \* import "lib.din"
        <<"import_statement", "import_main", <<ImportStmt("lib.din")>> >>,
        <<"import_builtin", "import_main", <<ImportCall("lib.din")>> >>,
        \* fun main(): print("main") end   import "lib.din"
        <<"import_statement_own_main", "import_main",
          <<MainDef("main"), ImportStmt("lib.din")>> >>,
        <<"import_builtin_own_main", "import_main",
          <<MainDef("main"), ImportCall("lib.din")>> >>,
        \* import "lib.din"   x = 2   import "lib.din"
        <<"import_statement", "import_twice",
          <<ImportStmt("lib.din"), Assign(Var("x"), IntLit(2)), ImportStmt("lib.din")>> >>,
        <<"import_builtin", "import_twice",
          <<ImportCall("lib.din"), Assign(Var("x"), IntLit(2)), ImportCall("lib.din")>> >>,
        \* ok = import("lib.din"), handed to Execute as a Program
        <<"import_value", "import_call",
          <<Assign(Var("ok"), Call(Var("import"), <<StrLit("lib.din")>>))>> >> }}

\* programs reading and writing subscripts (parser.go 913-928)
MaxLen == 3
IdxLit(i) == IF i < 0 THEN Unary("MINUS", IntLit(-i)) ELSE IntLit(i)
ArrayLit(n) == List([j \in 1..n |-> IntLit(j)])
ObjectLit(keys) == Map([j \in 1..Len(keys) |-> <<StrLit(keys[j]), IntLit(j)>>])
SubscriptPrograms ==
    \* a = [1, .., n]   print(a[i])
    {Program("array_read", "array_read", <<
        Assign(Var("a"), ArrayLit(n)),
        CallStmt("print", <<Subscript(Var("a"), IdxLit(i))>>) >>) :
        n \in 0..MaxLen, i \in -(MaxLen + 1)..(MaxLen + 1)}
    \* a = [1, .., n]   b = a   c = [a]   o = {"k": a}   a[i] = 9
    \cup {Program("array_write", "array_write", <<
        Assign(Var("a"), ArrayLit(n)),
        Assign(Var("b"), Var("a")),
        Assign(Var("c"), List(<<Var("a")>>)),
        Assign(Var("o"), Map(<< <<StrLit("k"), Var("a")>> >>)),
        Assign(Subscript(Var("a"), IdxLit(i)), IntLit(9)) >>) :
        n \in 0..MaxLen, i \in -(MaxLen + 1)..(MaxLen + 1)}
    \* o = {"a": 1, "b": 2}   print(o[k])
    \cup {Program("object_read", "object_read", <<
        Assign(Var("o"), ObjectLit(keys)),
        CallStmt("print", <<Subscript(Var("o"), StrLit(k))>>) >>) :
        keys \in {<<>>, <<"a">>, <<"a", "b">>}, k \in {"a", "b", "c"}}
    \* o = {"a": 1}   o[k] = 5   print(o[k])
    \cup {Program("object_write", "object_write", <<
        Assign(Var("o"), ObjectLit(<<"a">>)),
        Assign(Subscript(Var("o"), StrLit(k)), IntLit(5)),
        CallStmt("print", <<Subscript(Var("o"), StrLit(k))>>) >>) : k \in {"a", "b"}}

\* programs dividing numbers (part_004 405-419): ints -MaxInt..MaxInt and
\* the floats 0.0, 0.5, 1.0, .. (n/2)
FloatLit(num, den) == Literal(FloatV(num, den))
NumLits ==
    {IdxLit(i) : i \in -MaxInt..MaxInt} \cup {FloatLit(n, 2) : n \in 0..MaxInt}
\* print(A / B)   print(A % B)
DivModPrograms ==
    {Program("divmod", "divmod", <<CallStmt("print", <<Binary(a, op, b)>>)>>) :
        op \in {"DIVIDE", "MODULO"}, a \in NumLits, b \in NumLits}

\* the values compared with themselves: null, booleans, ints, floats,
\* strings, arrays, objects, the user function f, an anonymous function,
\* the built-in print, and an array and an object holding print
ReflexiveExprs ==
    {Literal(NullV), BoolLit(TRUE), BoolLit(FALSE), IntLit(0), IntLit(1), FloatLit(1, 2),
     StrLit(""), StrLit("a"), List(<<>>), List(<<IntLit(1)>>), List(<<List(<<IntLit(1)>>)>>),
     Map(<<>>), ObjectLit(<<"a", "b">>), Map(<< <<StrLit("k"), List(<<IntLit(1)>>)>> >>),
     Var("f"), FunctionExpression(<<>>, <<>>), List(<<Var("f")>>),
     Var("print"), List(<<Var("print")>>), Map(<< <<StrLit("k"), Var("print")>> >>)}
\* fun f(): end   v = X   r = v == v
ProgReflexive(x) ==
    Program("reflexive", "reflexive", <<
        FunctionDefinition("f", <<>>, <<>>),
        Assign(Var("v"), x),
        Assign(Var("r"), Binary(Var("v"), "EQUAL", Var("v"))) >>)

\* the conditions of the truthiness programs: the operands of the logic
\* programs, 0.0, 0.5, {} and {"a": 1}
TruthExprs ==
    OperandExprs \cup {FloatLit(0, 2), FloatLit(1, 2), Map(<<>>), ObjectLit(<<"a">>)}
\* c = X   r = c ? 1 : 2
ProgTernary(x) ==
    Program("ternary", "truthy_ternary", <<
        Assign(Var("c"), x),
        Assign(Var("r"), Ternary(Var("c"), IntLit(1), IntLit(2))) >>)
\* x = X   y = Y   r = x xor y
ProgXor(x, y) ==
    Program("xor", "truthy_xor", <<
        Assign(Var("x"), x),
        Assign(Var("y"), y),
        Assign(Var("r"), Binary(Var("x"), "XOR", Var("y"))) >>)

\* fun f(a, a): print(a) end   f(1, 2)
ProgDupParams ==
    Program("dup_params_named", "dup_params", <<
        FunctionDefinition("f", <<"a", "a">>, <<CallStmt("print", <<Var("a")>>)>>),
        CallStmt("f", <<IntLit(1), IntLit(2)>>) >>)
\* g = fun(a, a): print(a) end   g(1, 2)
ProgDupParamsAnonymous ==
    Program("dup_params_anonymous", "dup_params", <<
        Assign(Var("g"), FunctionExpression(<<"a", "a">>, <<CallStmt("print", <<Var("a")>>)>>)),
        CallStmt("g", <<IntLit(1), IntLit(2)>>) >>)

\* fun f(): break end   (or continue)
\* for x in [1, 2]: f()  print(x) end
ProgCallEscapeFor(stmt) ==
    Program("call_escape_for", "call_escape", <<
        FunctionDefinition("f", <<>>, <<stmt>>),
        For("x", List(<<IntLit(1), IntLit(2)>>), <<
            CallStmt("f", <<>>),
            CallStmt("print", <<Var("x")>>) >>) >>)
\* fun f(): break end   (or continue)
\* i = 0
\* while i < 2: i = i + 1  f()  print(i) end
ProgCallEscapeWhile(stmt) ==
    Program("call_escape_while", "call_escape", <<
        FunctionDefinition("f", <<>>, <<stmt>>),
        Assign(Var("i"), IntLit(0)),
        While(Binary(Var("i"), "LT", IntLit(2)), <<
            Assign(Var("i"), Binary(Var("i"), "PLUS", IntLit(1))),
            CallStmt("f", <<>>),
            CallStmt("print", <<Var("i")>>) >>) >>)

\* the strings and arrays repeated: "", "ab", [], [1, 2]
RepeatExprs == {StrLit(""), StrLit("ab"), List(<<>>), ArrayLit(2)}
\* s = X   r = s * N      or, flipped,   s = X   r = N * s
ProgRepeat(x, n, flipped) ==
    Program("repeat", "repeat", <<
        Assign(Var("s"), x),
        Assign(Var("r"), IF flipped THEN Binary(IdxLit(n), "TIMES", Var("s"))
                         ELSE Binary(Var("s"), "TIMES", IdxLit(n))) >>)

Programs ==
    ArityPrograms \cup MainPrograms \cup ExitPrograms \cup ImportPrograms \cup
    SubscriptPrograms \cup DivModPrograms \cup {ProgReflexive(x) : x \in ReflexiveExprs} \cup
    {ProgDupParams, ProgDupParamsAnonymous} \cup
    {ProgRepeat(x, n, flipped) :
        x \in RepeatExprs, n \in -MaxInt..MaxInt, flipped \in BOOLEAN} \cup
    {ProgCallEscapeFor(x) : x \in {Break, Continue}} \cup
    {ProgCallEscapeWhile(x) : x \in {Break, Continue}} \cup
    {ProgTernary(x) : x \in TruthExprs} \cup
    {ProgXor(x, y) : x \in TruthExprs, y \in TruthExprs} \cup
    {ProgClosureCounter, ProgClosureCounterTop,
     ProgCallerLocal, ProgCallerParam, ProgUnbound, ProgGlobalName,
     ProgAssignLocal, ProgAssignAfterTryReturn,
     ProgTryReturn, ProgCatchReturn, ProgCatchError, ProgCatchErrorNested,
     ProgErrorInCall, ProgTryContinue,
     ProgNestedBreakInTry,
     ProgBreakTop, ProgContinueTop, ProgBreakInFunction, ProgContinueInFunction,
     ProgBreakInTryTop, ProgContinueInTryTop, ProgReturnInTryTop, ProgReturnInIfTop}
    \cup {ProgAdder(k, x) : k \in 0..MaxInt, x \in 0..MaxInt}
    \cup {ProgTryDivide(a, b) : a \in 0..MaxInt, b \in 0..MaxInt}
    \cup {ProgTryBreak(n) : n \in 0..MaxInt}
    \cup {ProgWhileBreak(n, k) : n \in 0..MaxInt, k \in 1..MaxInt}
    \cup {ProgForContinue(k) : k \in 1..MaxInt}
    \cup {ProgNestedBreak(n, k) : n \in 0..MaxInt, k \in 1..MaxInt}
    \cup {ProgNestedContinue(k) : k \in 1..MaxInt}
    \cup {ProgReturnTop(v) : v \in 0..MaxInt}
    \cup {ProgShortCircuit(op, l, ret) : op \in {"AND", "OR"}, l \in BoolExprs, ret \in BOOLEAN}
    \cup {ProgShortCircuitLiteral(op, b) : op \in {"AND", "OR"}, b \in BOOLEAN}
    \cup {ProgNot(x) : x \in OperandExprs}
    \cup {ProgLogic(op, x, y) : op \in {"AND", "OR"}, x \in OperandExprs, y \in OperandExprs}

(***************************************************************************)
(* Source texts handed to RunProgram (part_007 122-183), as sequences of   *)
(* characters.                                                             *)
(***************************************************************************)
Source(name, family, text, desugared) ==
    [kind |-> "source", name |-> name, family |-> family, Source |-> text,
     Desugared |-> desugared]



\* the operators that have a compound-assignment token (part_006 538-584)
CompoundOps == {"+", "-", "*", "/", "%"}

\*   x = A
\*   x OP= B
SrcCompound(op, a, b) ==
    <<"x", " ", "=", " ", DigitChars[a + 1], "\n", "x", " ", op, "=", " ", DigitChars[b + 1]>>

\*   x = A
\*   x = x OP B
SrcDesugared(op, a, b) ==
    <<"x", " ", "=", " ", DigitChars[a + 1], "\n",
      "x", " ", "=", " ", "x", " ", op, " ", DigitChars[b + 1]>>

\*   a = [A]
\*   a[0] OP= B
SrcCompoundSubscript(op, a, b) ==
    <<"a", " ", "=", " ", "[", DigitChars[a + 1], "]", "\n",
      "a", "[", "0", "]", " ", op, "=", " ", DigitChars[b + 1]>>

\*   a = [A]
\*   a[0] = a[0] OP B
SrcDesugaredSubscript(op, a, b) ==
    <<"a", " ", "=", " ", "[", DigitChars[a + 1], "]", "\n",
      "a", "[", "0", "]", " ", "=", " ", "a", "[", "0", "]", " ", op, " ",
      DigitChars[b + 1]>>

\* ok = import("lib.din")
SrcImportCall == <<"o", "k", " ", "=", " ", "i", "m", "p", "o", "r", "t", "(", "\"", "l", "i", "b", ".", "d", "i", "n", "\"", ")">>
\* import "lib.din"
SrcImport == <<"i", "m", "p", "o", "r", "t", " ", "\"", "l", "i", "b", ".", "d", "i", "n", "\"">>

\* the words of the ternary sources
BoolWord(b) == IF b THEN <<"t", "r", "u", "e">> ELSE <<"f", "a", "l", "s", "e">>
LogicOps == {"or", "xor", "and"}
OpWord(op) ==
    CASE op = "or" -> <<"o", "r">>
      [] op = "xor" -> <<"x", "o", "r">>
      [] op = "and" -> <<"a", "n", "d">>

\*   r = A OP B ? 1 : 2
SrcTernary(op, a, b) ==
    <<"r", " ", "=", " ">> \o BoolWord(a) \o <<" ">> \o OpWord(op) \o <<" ">> \o BoolWord(b)
    \o <<" ", "?", " ", "1", " ", ":", " ", "2">>

\*   r = (A OP B) ? 1 : 2
SrcTernaryGrouped(op, a, b) ==
    <<"r", " ", "=", " ", "(">> \o BoolWord(a) \o <<" ">> \o OpWord(op) \o <<" ">> \o BoolWord(b)
    \o <<")", " ", "?", " ", "1", " ", ":", " ", "2">>

\*   fun f(a, a): end
\*   f(1, 2)
SrcDupParams ==
    <<"f", "u", "n", " ", "f", "(", "a", ",", " ", "a", ")", ":", " ", "e", "n", "d", "\n",
      "f", "(", "1", ",", " ", "2", ")">>
\*   g = fun(a, a): end
\*   g(1, 2)
SrcDupParamsAnonymous ==
    <<"g", " ", "=", " ", "f", "u", "n", "(", "a", ",", " ", "a", ")", ":", " ", "e", "n", "d", "\n",
      "g", "(", "1", ",", " ", "2", ")">>

\* the sources of the driver
\*   fun main(a): end
SrcMainParam ==
    <<"f", "u", "n", " ", "m", "a", "i", "n", "(", "a", ")", ":", " ", "e", "n", "d">>
\*   fun main(): end
SrcMainPlain ==
    <<"f", "u", "n", " ", "m", "a", "i", "n", "(", ")", ":", " ", "e", "n", "d">>
\*   fun main(a...): end
SrcMainVariadic ==
    <<"f", "u", "n", " ", "m", "a", "i", "n", "(", "a", ".", ".", ".", ")", ":", " ", "e", "n", "d">>
\*   x = 1 / 0
SrcDivideByZero == <<"x", " ", "=", " ", "1", " ", "/", " ", "0">>
\*   x = y
SrcUnbound == <<"x", " ", "=", " ", "y">>
\*   break
SrcBreak == <<"b", "r", "e", "a", "k">>
\*   x =
SrcNoExpression == <<"x", " ", "=">>

\* sources whose last `:` block is not closed by end
\*   if (true) then: x = 1
SrcUnclosedIf ==
    <<"i", "f", " ", "(", "t", "r", "u", "e", ")", " ", "t", "h", "e", "n", ":", " ", "x", " ", "=", " ", "1">>
\*   if (false) then: x = 1 else: x = 2
SrcUnclosedElse ==
    <<"i", "f", " ", "(", "f", "a", "l", "s", "e", ")", " ", "t", "h", "e", "n", ":", " ", "x", " ", "=", " ", "1", " ", "e", "l", "s", "e", ":", " ", "x", " ", "=", " ", "2">>
\*   while (false): x = 1
SrcUnclosedWhile ==
    <<"w", "h", "i", "l", "e", " ", "(", "f", "a", "l", "s", "e", ")", ":", " ", "x", " ", "=", " ", "1">>
\*   for (i in []): x = 1
SrcUnclosedFor ==
    <<"f", "o", "r", " ", "(", "i", " ", "i", "n", " ", "[", "]", ")", ":", " ", "x", " ", "=", " ", "1">>
\*   fun f(): x = 1
SrcUnclosedFun ==
    <<"f", "u", "n", " ", "f", "(", ")", ":", " ", "x", " ", "=", " ", "1">>
\*   try: x = 1 catch (e): x = 2
SrcUnclosedCatch ==
    <<"t", "r", "y", ":", " ", "x", " ", "=", " ", "1", " ", "c", "a", "t", "c", "h", " ", "(", "e", ")", ":", " ", "x", " ", "=", " ", "2">>
UnclosedSources ==
    {Source("unclosed_if", "unclosed", SrcUnclosedIf, <<>>),
     Source("unclosed_else", "unclosed", SrcUnclosedElse, <<>>),
     Source("unclosed_while", "unclosed", SrcUnclosedWhile, <<>>),
     Source("unclosed_for", "unclosed", SrcUnclosedFor, <<>>),
     Source("unclosed_fun", "unclosed", SrcUnclosedFun, <<>>),
     Source("unclosed_catch", "unclosed", SrcUnclosedCatch, <<>>)}

Sources ==
    UnclosedSources \cup
    {Source("import_call", "import_call", SrcImportCall, <<>>),
     Source("dup_params_named", "dup_params", SrcDupParams, <<>>),
     Source("main_param", "driver", SrcMainParam, <<>>),
     Source("main_plain", "driver", SrcMainPlain, <<>>),
     Source("main_variadic", "driver", SrcMainVariadic, <<>>),
     Source("divide_by_zero", "driver", SrcDivideByZero, <<>>),
     Source("unbound", "driver", SrcUnbound, <<>>),
     Source("break", "driver", SrcBreak, <<>>),
     Source("no_expression", "driver", SrcNoExpression, <<>>),
     Source("dup_params_anonymous", "dup_params", SrcDupParamsAnonymous, <<>>),
     Source("import_statement", "import_call", SrcImport, <<>>)} \cup
    {Source("compound", "compound", SrcCompound(op, a, b), SrcDesugared(op, a, b)) :
        op \in CompoundOps, a \in 0..MaxInt, b \in 0..MaxInt}
    \cup {Source("desugared", "desugared", SrcDesugared(op, a, b), <<>>) :
            op \in CompoundOps, a \in 0..MaxInt, b \in 0..MaxInt}
    \cup {Source("compound_subscript", "compound",
                 SrcCompoundSubscript(op, a, b), SrcDesugaredSubscript(op, a, b)) :
            op \in CompoundOps, a \in 0..MaxInt, b \in 0..MaxInt}
    \cup {Source("desugared_subscript", "desugared", SrcDesugaredSubscript(op, a, b), <<>>) :
            op \in CompoundOps, a \in 0..MaxInt, b \in 0..MaxInt}
    \cup {Source("ternary", "ternary_precedence",
                 SrcTernary(op, a, b), SrcTernaryGrouped(op, a, b)) :
            op \in LogicOps, a \in BOOLEAN, b \in BOOLEAN}
    \cup {Source("ternary_grouped", "ternary_grouped", SrcTernaryGrouped(op, a, b), <<>>) :
            op \in LogicOps, a \in BOOLEAN, b \in BOOLEAN}

Inputs == Programs \cup Sources

(***************************************************************************)
(* The files an execution may find.                                        *)
(***************************************************************************)
\* the places a file named lib or lib.din may be in; the file at place k
\* holds x = k
LibPaths ==
    << <<"/", "w", "/", "l", "i", "b">>,
       <<"/", "w", "/", "l", "i", "b", ".", "d", "i", "n">>,
       <<"/", "w", "/", "e", "x", "a", "m", "p", "l", "e", "s", "/", "l", "i", "b", ".", "d", "i", "n">>,
       <<"/", "w", "/", ".", ".", "/", "e", "x", "a", "m", "p", "l", "e", "s", "/", "l", "i", "b", ".", "d", "i", "n">>,
       <<"/", "l", "i", "b", ".", "d", "i", "n">> >>
PlaceFile(k) == <<"x", " ", "=", " ", DigitChars[k + 1]>>
\* the files at the places ks
LibFiles(ks) ==
    [path \in {LibPaths[k] : k \in ks} |->
        PlaceFile(CHOOSE k \in ks : LibPaths[k] = path)]
\* fun main(): end   x = 1
MainFile == <<"f", "u", "n", " ", "m", "a", "i", "n", "(", ")", ":", " ", "e", "n", "d", "\n", "x", " ", "=", " ", "1">>
\* x =    which does not parse
BadFile == <<"x", " ", "=">>
OneFile(content) == [path \in {LibPaths[2]} |-> content]

FileSystems(in) ==
    CASE in.family = "import_resolve" -> {LibFiles(ks) : ks \in SUBSET (1..Len(LibPaths))}
      [] in.family = "import_main" -> {OneFile(MainFile)}
      [] in.family = "import_twice" -> {OneFile(PlaceFile(1))}
      [] in.family = "import_call" -> {<<>>, OneFile(PlaceFile(1)), OneFile(BadFile)}
      [] OTHER -> {<<>>}

(***************************************************************************)
(* The driver: Execute (part_004 971-988), newInterpreter (914-949) and    *)
(* interp.execute (896-912).                                               *)
(***************************************************************************)
\* builtins (functions.go 1087-): the built-ins the programs use
builtins ==
    [print |-> BuiltinFunction("print"), exit |-> BuiltinFunction("exit"),
     import |-> BuiltinFunction("import")]

newInterpreter(cfg) ==
    [maps |-> <<builtins>>,
     vars |-> <<1>>,
     arrays |-> <<>>,
     stdout |-> <<>>,
     stats |-> [Ops |-> 0, UserCalls |-> 0, BuiltinCalls |-> 0],
     inUnitTest |-> cfg.IsUnitTest,
     exit |-> IF cfg.Exit = "nil" THEN "os.Exit" ELSE cfg.Exit,
     exits |-> <<>>,
     files |-> cfg.Files,
     val |-> NullV,
     panic |-> NoPanic]

\* RunProgram builds a Config with Stdout only; a host calling Execute on a
\* Program of its own may set IsUnitTest and Exit (config.go 28-30, 49-58)
Configs(in) ==
    IF in.kind = "source"
    THEN [IsUnitTest : {FALSE}, Exit : {"nil"}, Files : FileSystems(in)]
    ELSE IF in.family = "exit"
    THEN [IsUnitTest : BOOLEAN, Exit : {"nil", "callback"}, Files : FileSystems(in)]
    ELSE [IsUnitTest : BOOLEAN, Exit : {"nil"}, Files : FileSystems(in)]

\* RunProgram has not returned
NoResult == [ok |-> FALSE, console |-> "none"]

Init ==
    /\ input \in Inputs
    /\ config \in Configs(input)
    /\ pc = IF input.kind = "source" THEN "parse" ELSE "run"
    /\ prog = IF input.kind = "source" THEN <<>> ELSE input.Statements
    /\ idx = 1
    /\ interp = newInterpreter(config)
    /\ err = NilError
    /\ tokenizer = NewTokenizer(<<>>)
    /\ returned = NoToken
    /\ result = NoResult

\* RunProgram up to its call of Execute: ParseProgram, and the early return
\* on a parse error
RunProgramParse ==
    /\ pc = "parse"
    /\ LET r == ParseProgram(input.Source)
       IN /\ prog' = r.prog
          /\ err' = r.err
          /\ pc' = IF r.err = NilError THEN "run" ELSE "done"
    /\ UNCHANGED <<input, config, idx, interp, tokenizer, returned, result>>

\* where the driver goes after a call: the process has ended, the deferred
\* recover of Execute runs, or execution goes on
AfterCall(r, next) ==
    IF Exited(r) THEN "exited" ELSE IF Panicking(r) THEN "recover" ELSE next

\* one round of `for _, statement := range prog.Statements`
ExecuteStatement ==
    /\ pc = "run"
    /\ idx <= Len(prog)
    /\ LET r == go(<<"executeStatement", interp, prog[idx]>>)
       IN /\ interp' = Yield(r, NullV)
          /\ pc' = AfterCall(r, "run")
    /\ idx' = idx + 1
    /\ UNCHANGED <<input, config, prog, err, tokenizer, returned, result>>

\* a driver that calls main in unit-test mode too
ExecuteMainAlways ==
    /\ pc = "run"
    /\ idx > Len(prog)
    /\ LET mainFunc == lookup(interp, "main")
       IN IF mainFunc.ok /\ mainFunc.v.t = "fun"
          THEN LET r == go(<<"callFunction", interp, ZeroPosition, mainFunc.v, <<>>>>)
               IN /\ interp' = Yield(r, NullV)
                  /\ pc' = AfterCall(r, "return")
          ELSE /\ interp' = interp
               /\ pc' = "return"
    /\ UNCHANGED <<input, config, prog, idx, err, tokenizer, returned, result>>

\* interp.execute after the loop: the automatic call of main
ExecuteMain ==
    /\ pc = "run"
    /\ idx > Len(prog)
    /\ LET mainFunc == lookup(interp, "main")
       IN IF mainFunc.ok /\ mainFunc.v.t = "fun" /\ ~interp.inUnitTest
          THEN LET r == go(<<"callFunction", interp, ZeroPosition, mainFunc.v, <<>>>>)
               IN /\ interp' = Yield(r, NullV)
                  /\ pc' = AfterCall(r, "return")
          ELSE /\ interp' = interp
               /\ pc' = "return"
    /\ UNCHANGED <<input, config, prog, idx, err, tokenizer, returned, result>>

\* the deferred recover of Execute
ExecuteRecover ==
    /\ pc = "recover"
    /\ err' = IF interp.panic.k = "returnResult"
              THEN runtimeError("can't return at top level")
              ELSE interp.panic
    /\ interp' = Recovered(interp)
    /\ pc' = "done"
    /\ UNCHANGED <<input, config, prog, idx, tokenizer, returned, result>>

\* Execute returns normally
ExecuteReturn ==
    /\ pc = "return"
    /\ pc' = "done"
    /\ UNCHANGED <<input, config, prog, idx, interp, err, tokenizer, returned, result>>

(***************************************************************************)
(* RunProgram after Execute (part_007 20-39, 122-182).                     *)
(***************************************************************************)
\* err.(ErrorInterpreter) or err.(Error): the errors that carry a Position
HasPosition(e) ==
    \/ e.k = "parse"
    \/ e.k = "error" /\ e.cat # "go"
    \/ e.k \in {"BreakException", "ContinueException"}
PositionOf(e) == IF "pos" \in DOMAIN e THEN e.pos ELSE TokenPosition

\* showErrorSource: lines[pos.Line-1] and errorLine[:pos.Column-1] index the
\* source by the position; with Position{} the index is -1, a Go run-time
\* panic.  The excerpt itself is left out of the console text.
showErrorSource(source, pos) ==
    IF pos.inSource
    THEN [panic |-> FALSE, text |-> ""]
    ELSE [panic |-> TRUE, text |-> "index out of range [-1]"]

\* RunProgram from the return of ParseProgram (with an error) or of Execute
\* to its own return; it has no recover
RunProgramReturn ==
    /\ pc = "done"
    /\ input.kind = "source"
    /\ LET shown == IF err # NilError /\ HasPosition(err)
                    THEN showErrorSource(input.Source, PositionOf(err))
                    ELSE [panic |-> FALSE, text |-> ""]
       IN IF shown.panic
          THEN /\ pc' = "panicked"
               /\ result' = NoResult
          ELSE /\ pc' = "returned"
               /\ result' = IF err = NilError
                            THEN [ok |-> TRUE, console |-> interp.stdout]
                            ELSE [ok |-> FALSE, console |-> shown.text \o ErrorString(err)]
    /\ UNCHANGED <<input, config, prog, idx, interp, err, tokenizer, returned>>

(***************************************************************************)
(* A caller of the tokenizer alone: NewTokenizer on a source, then         *)
(* Tokenizer.Next again and again (part_006 343-351, 495-).                *)
(***************************************************************************)
MaxSrcLen == 3
\* the bytes of the sources: a letter, a digit, a blank, a newline, the
\* comment characters, a quote and a byte that is not UTF-8
TokenChars == {"a", "1", " ", "\n", "/", "*", "\"", InvalidByte}
TokenSources == UNION {[1..n -> TokenChars] : n \in 0..MaxSrcLen}

TokInit ==
    /\ input \in {Source("tokens", "tokens", text, <<>>) : text \in TokenSources}
    /\ config = [IsUnitTest |-> FALSE, Exit |-> "nil", Files |-> <<>>]
    /\ pc = "tokens"
    /\ prog = <<>>
    /\ idx = 1
    /\ interp = newInterpreter(config)
    /\ err = NilError
    /\ tokenizer = NewTokenizer(input.Source)
    /\ returned = NoToken
    /\ result = NoResult

\* one call of Tokenizer.Next
TokenizerNext ==
    /\ pc = "tokens"
    /\ LET r == Tokenizer_Next(tokenizer)
       IN /\ tokenizer' = r.t
          /\ returned' = [tok |-> r.tok, val |-> r.val]
    /\ UNCHANGED <<input, config, pc, prog, idx, interp, err, result>>

TokNext == TokenizerNext

\* the caller goes on calling Next
TokSpec == TokInit /\ [][TokNext]_vars /\ WF_vars(TokenizerNext)

Next ==
    \/ RunProgramParse \/ ExecuteStatement \/ ExecuteMain \/ ExecuteRecover \/ ExecuteReturn
    \/ RunProgramReturn

Spec == Init /\ [][Next]_vars

\* what the program wrote, as the integers printed (one value per line)
Printed == [i \in 1..Len(interp.stdout) |-> interp.stdout[i][1]]
GlobalFrame == interp.maps[1]
Done == pc = "done"

(***************************************************************************)
(* Closures and scopes (part_004 620-652, functions.go 1020-1051).         *)
(***************************************************************************)
Ints(s) == [i \in 1..Len(s) |-> IntV(s[i])]

\* C1: the counter closures keep their own count across calls: a(), a(),
\* b(), a() print 1, 2, 1, 3.
C1_ClosureCounter ==
    (/\ Done
     /\ input.name \in {"closure_counter", "closure_counter_top"}
     /\ input.name = "closure_counter" => ~config.IsUnitTest) =>
        /\ err = NilError
        /\ Printed = Ints(<<1, 2, 1, 3>>)

\* C2: a free name of a function body never resolves to a binding that
\* exists only in a frame of a caller: that is a name error.
C2_LexicalLookup ==
    (Done /\ input.family = "lexical") =>
        IF input.name = "global_name"
        THEN err = NilError /\ Printed = Ints(<<3>>)
        ELSE err.k = "error" /\ err.cat = "name" /\ interp.stdout = <<>>

\* C3: an assignment inside a function body creates or updates a local
\* binding and never creates or changes a binding of the global frame.
C3_AssignTopFrame ==
    (Done /\ input.family = "assign") =>
        /\ err = NilError
        /\ IF input.name = "assign_local"
           THEN GlobalFrame["x"] = IntV(1) /\ Printed = Ints(<<2, 1>>)
           ELSE "x" \notin DOMAIN GlobalFrame

(***************************************************************************)
(* try/catch and loops (part_004 752-875).                                 *)
(***************************************************************************)
\* C4: a return, break or continue in a try block leaves the try/catch
\* without running the catch block or binding the catch variable.
C4_CatchOnlyErrors ==
    (Done /\ input.name \in {"try_return", "try_break", "try_continue"}) =>
        /\ err = NilError
        /\ "e" \notin DOMAIN GlobalFrame
        /\ CASE input.name = "try_return" -> Printed = Ints(<<1>>)
             [] input.name = "try_break" ->
                Printed = Ints(<<IF input.Statements[2].Condition.Right.Value.i = 0
                                 THEN 0 ELSE 1>>)
             [] input.name = "try_continue" -> Printed = <<>>

\* C5: once a try/catch or a function call has been left, by any path, the
\* scope stack is as deep as before it: after the top-level statements only
\* the global frame is left.
C5_ScopesBalanced ==
    (Done /\ input.family = "try") => interp.vars = <<1>>

\* what a program of the family loop prints when break and continue act on
\* the innermost loop only
LoopLines ==
    LET s == input.Statements
    IN CASE input.name = "while_break" ->
            LET n == s[2].Condition.Right.Value.i
                k == s[2].Body[2].Condition.Right.Value.i
            IN [x \in 1..(IF k <= n THEN k - 1 ELSE n) |-> x]
         [] input.name = "for_continue" ->
            LET k == s[1].Body[1].Condition.Right.Value.i
            IN [x \in 1..(IF k <= 4 THEN 3 ELSE 4) |-> IF x < k THEN x ELSE x + 1]
         [] input.name = "nested_break" ->
            LET n == s[2].Condition.Right.Value.i
                k == s[2].Body[2].Body[1].Condition.Right.Value.i
                m == IF k <= 3 THEN k - 1 ELSE 3
            IN [x \in 1..(n * m) |-> (((x - 1) \div m) + 1) * 10 + ((x - 1) % m) + 1]
         [] input.name = "nested_continue" ->
            LET k == s[1].Body[1].Body[1].Condition.Right.Value.i
                m == IF k <= 3 THEN 2 ELSE 3
            IN [x \in 1..(2 * m) |->
                   LET j == ((x - 1) % m) + 1
                   IN (((x - 1) \div m) + 1) * 10 + (IF j < k THEN j ELSE j + 1)]
         [] input.name = "nested_break_in_try" -> <<11, 21>>

\* C6: break ends, and continue skips one round of, the innermost loop
\* only; the rest of the round is not executed and the outer loop goes on.
C6_InnermostLoop ==
    (Done /\ input.family = "loop") => (err = NilError /\ Printed = Ints(LoopLines))

\* C7: a break or continue outside every loop makes Execute return an
\* error; a return outside every function call makes it return the runtime
\* error "can't return at top level".
C7_EscapesReported ==
    (Done /\ input.family = "escape") =>
        IF input.name \in {"return_top", "return_in_try_top", "return_in_if_top"}
        THEN err = runtimeError("can't return at top level")
        ELSE err # NilError

(***************************************************************************)
(* Logical operators (part_004 431-436, 489-523).                          *)
(***************************************************************************)
\* C8: when the left operand decides (false and .., true or ..) the right
\* operand is not evaluated: f is not called and prints nothing; otherwise
\* f is called once and gives the result.
C8_ShortCircuit ==
    (Done /\ input.family = "short_circuit") =>
        LET op == input.Statements[3].Value.Operator
            l == GlobalFrame["l"].b
            ret == input.Statements[1].Body[2].Result.Value.b
            decided == IF op = "AND" THEN ~l ELSE l
        IN /\ err = NilError
           /\ IF decided
              THEN /\ interp.stats.UserCalls = 0
                   /\ interp.stdout = <<>>
                   /\ GlobalFrame["r"] = BoolV(l)
              ELSE /\ interp.stats.UserCalls = 1
                   /\ Printed = <<StrV("f")>>
                   /\ GlobalFrame["r"] = BoolV(ret)

\* false and f() has been evaluated without a call of f
C8_Witness ==
    /\ Done /\ input.name = "short_circuit"
    /\ input.Statements[3].Value.Operator = "AND"
    /\ GlobalFrame["l"] = BoolV(FALSE)
    /\ GlobalFrame["r"] = BoolV(FALSE)
    /\ interp.stats.UserCalls = 0

\* the truthiness the specification gives a literal operand
Truthy(e) ==
    CASE e.n = "List" -> Len(e.Values) > 0
      [] e.n = "Map" -> Len(e.Items) > 0
      [] e.n = "Variable" -> TRUE
      [] e.Value.t = "float" -> e.Value.num # 0
      [] e.Value.t = "null" -> FALSE
      [] e.Value.t = "bool" -> e.Value.b
      [] e.Value.t = "int" -> e.Value.i # 0
      [] e.Value.t = "str" -> e.Value.s # ""

\* C9: not, and, or work on the truthiness of operands of every type and
\* raise no type error for an operand that is not a boolean.
C9_LogicOnTruthiness ==
    (Done /\ input.family \in {"logic_not", "logic_binary"}) =>
        /\ err = NilError
        /\ "r" \in DOMAIN GlobalFrame
        /\ IF input.family = "logic_not"
           THEN GlobalFrame["r"] = BoolV(~Truthy(input.Statements[1].Value))
           ELSE LET x == Truthy(input.Statements[1].Value)
                    y == Truthy(input.Statements[2].Value)
                IN GlobalFrame["r"] =
                       BoolV(IF input.Statements[3].Value.Operator = "AND"
                             THEN x /\ y ELSE x \/ y)

(***************************************************************************)
(* Compound assignment (parser.go 74-109, part_006 538-584).               *)
(***************************************************************************)
\* C10: a program with `x op= e` parses, into the program that
\* `x = x op e` in its place parses into, and so runs as that one does.
C10_CompoundDesugars ==
    (pc # "parse" /\ input.family = "compound") =>
        /\ err = NilError
        /\ prog = ParseProgram(input.Desugared).prog

(***************************************************************************)
(* Parameter binding and arity (functions.go 1002-1051).                   *)
(***************************************************************************)
ArityNp == Len(input.Statements[1].Parameters)
ArityVariadic == input.Statements[1].Ellipsis
ArityNa == Len(input.Statements[2].Expression.Arguments)
ArityRejected == IF ArityVariadic THEN ArityNa < ArityNp - 1 ELSE ArityNa # ArityNp

\* C11: a call with the wrong number of arguments raises the type error
\* "<name>() requires N args, got M" (a variadic call with fewer than N-1
\* arguments raises a type error too) and runs no statement of the body; an
\* accepted variadic call binds the first N-1 arguments positionally and the
\* remaining ones as a fresh array to the last parameter.
C11_ArityChecked ==
    (Done /\ input.family = "arity" /\ (ArityVariadic => ArityNp >= 1)) =>
        IF ArityRejected
        THEN /\ err.k = "error" /\ err.cat = "type"
             /\ ~ArityVariadic =>
                    err.msg = "f() requires " \o ToString(ArityNp) \o " args, got "
                              \o ToString(ArityNa)
             /\ interp.stats.UserCalls = 0
             /\ interp.stdout = <<>>
        ELSE /\ err = NilError
             /\ Len(interp.stdout) = 1
             /\ LET line == interp.stdout[1]
                     fixed == IF ArityVariadic THEN ArityNp - 1 ELSE ArityNp
                IN /\ Len(line) = ArityNp
                   /\ \A i \in 1..fixed : line[i] = IntV(i)
                   /\ ArityVariadic =>
                        /\ line[ArityNp].t = "array"
                        /\ interp.arrays[line[ArityNp].ref]
                             = [i \in 1..(ArityNa - fixed) |-> IntV(fixed + i)]

(***************************************************************************)
(* The automatic call of main (part_004 896-912).                          *)
(***************************************************************************)
\* the lines main's body has printed, and the calls of main the program makes itself
MainLines == {i \in 1..Len(interp.stdout) : interp.stdout[i] = <<StrV("main")>>}
OwnMainCalls == IF input.name = "main_called" THEN 1 ELSE 0
MainBound ==
    LET mainFunc == lookup(interp, "main") IN mainFunc.ok /\ mainFunc.v.t = "fun"

\* C12: Execute calls main with no arguments exactly once, after every
\* top-level statement has completed without error, if and only if main is
\* then bound to a user function and IsUnitTest is false.
C12_MainAutoInvoked ==
    input.family = "main" =>
        LET auto == Cardinality(MainLines) - (IF idx > 2 THEN OwnMainCalls ELSE 0)
        IN /\ auto \in {0, 1}
           /\ auto = 1 => /\ pc \in {"return", "recover", "done"}
                          /\ idx > Len(prog)
                          /\ interp.stdout[Len(interp.stdout)] = <<StrV("main")>>
           /\ Done => (auto = 1 <=> (MainBound /\ ~config.IsUnitTest /\ err = NilError))

\* main has been called by Execute, after the top-level output
C12_Witness ==
    /\ Done /\ input.name = "main" /\ ~config.IsUnitTest
    /\ interp.stdout = << <<StrV("top")>>, <<StrV("main")>> >>
    /\ interp.stats.UserCalls = 1

(***************************************************************************)
(* exit (functions.go 1246-1260).                                          *)
(***************************************************************************)
\* C13: once exit has called the host's exit callback, nothing more of the
\* program is evaluated: no output is written, no function is called (exit
\* stays the only built-in call made) and main is not called.
C13_ExitTerminates ==
    (input.family = "exit" /\ Len(interp.exits) > 0) =>
        /\ interp.stdout = <<>>
        /\ interp.stats.BuiltinCalls = 1

(***************************************************************************)
(* Imports (part_004 991-1010, functions.go 1925-1999).                    *)
(***************************************************************************)
\* the places of the files that have been executed: the file at place k
\* binds x to k
FilePlaces == IF "x" \in DOMAIN GlobalFrame THEN {GlobalFrame["x"].i} ELSE {}
MainIsOwn ==
    /\ "main" \in DOMAIN GlobalFrame
    /\ GlobalFrame["main"].t = "fun"
    /\ GlobalFrame["main"].Body = MainDef("main").Body

\* C14: importing a file that defines main leaves the importer's binding of
\* main as it was (absent stays absent), the file's main is never the one
\* called at the end, and the file's other statements are executed.
C14_ImportSkipsMain ==
    (Done /\ input.family = "import_main") =>
        /\ err = NilError
        /\ "x" \in DOMAIN GlobalFrame /\ GlobalFrame["x"] = IntV(1)
        /\ IF input.name \in {"import_statement_own_main", "import_builtin_own_main"}
           THEN /\ MainIsOwn
                /\ ~config.IsUnitTest => interp.stdout = << <<StrV("main")>> >>
           ELSE /\ "main" \notin DOMAIN GlobalFrame
                /\ interp.stats.UserCalls = 0

\* the file name a program of the family import_resolve imports
ImportedName ==
    LET s == input.Statements[1]
    IN IF s.n = "Import" THEN s.Filename ELSE s.Expression.Arguments[1].Value.s
\* the candidates of the resolution algorithm: F with .din appended when
\* absent, then cwd/F when F is relative, examples/F, ../examples/F
Candidates ==
    LET given == Chars(ImportedName)
        din == <<".", "d", "i", "n">>
        F == IF Len(given) >= 4 /\ SubSeq(given, Len(given) - 3, Len(given)) = din
             THEN given ELSE given \o din
        relative == F[1] # "/"
        sep == IF relative THEN <<"/">> ELSE <<>>
    IN <<F>> \o (IF relative THEN <<Getwd \o <<"/">> \o F>> ELSE <<>>)
       \o <<<<"e", "x", "a", "m", "p", "l", "e", "s">> \o sep \o F, <<".", ".", "/", "e", "x", "a", "m", "p", "l", "e", "s">> \o sep \o F>>
Readable(path) == (IF path[1] = "/" THEN path ELSE Getwd \o <<"/">> \o path) \in DOMAIN config.Files
\* the file the algorithm finds: the first candidate that can be read
FoundPlace ==
    LET ok == {i \in 1..Len(Candidates) : Readable(Candidates[i])}
    IN IF ok = {} THEN {}
       ELSE LET first == Candidates[CHOOSE i \in ok : \A j \in ok : i <= j]
                abs == IF first[1] = "/" THEN first ELSE Getwd \o <<"/">> \o first
            IN {k \in 1..Len(LibPaths) : LibPaths[k] = abs}

\* C15: the import statement and the import built-in resolve a file name by
\* the same algorithm: for every name and every set of files each of them
\* executes the first readable candidate, or finds no file.
C15_SameResolution ==
    (Done /\ input.family = "import_resolve") => FilePlaces = FoundPlace

\* C16: a program with the call import(filename) parses and runs, and the
\* call yields true when the file was found, parsed and executed and false,
\* with no error, when it is missing or does not parse.
C16_ImportCallable ==
    (Done /\ input.family = "import_call" /\ input.name # "import_statement") =>
        /\ err = NilError
        /\ "ok" \in DOMAIN GlobalFrame
        /\ GlobalFrame["ok"] = BoolV(config.Files = OneFile(PlaceFile(1)))

\* C17: a file imported twice in one execution is executed only the first
\* time: a binding the importer changed after the first import is not
\* initialised again by the second.
C17_ImportedOnce ==
    (Done /\ input.family = "import_twice") =>
        /\ err = NilError
        /\ GlobalFrame["x"] = IntV(2)

(***************************************************************************)
(* Subscripts (part_004 450-487, 703-723).                                 *)
(***************************************************************************)
\* the length n of the array literal and the index i of a program of the
\* families array_read and array_write
ArrLen == Len(input.Statements[1].Value.Values)
IdxOf(e) == IF e.n = "Unary" THEN -e.Operand.Value.i ELSE e.Value.i
ReadIdx == IdxOf(input.Statements[2].Expression.Arguments[1].Subscript)
WriteIdx == IdxOf(input.Statements[5].Target.Subscript)
Elements(n) == [j \in 1..n |-> IntV(j)]

\* C18: reading o[k] never fails for a missing key: it yields the value
\* bound to k when k is present and null when it is absent.
C18_MissingKeyIsNull ==
    (Done /\ input.family = "object_read") =>
        LET items == input.Statements[1].Value.Items
            k == input.Statements[2].Expression.Arguments[1].Subscript.Value.s
            bound == {j \in 1..Len(items) : items[j][1].Value.s = k}
        IN /\ err = NilError
           /\ Printed = <<IF bound = {} THEN NullV
                          ELSE items[CHOOSE j \in bound : TRUE][2].Value>>

\* C19: for -len(a) <= i < len(a) the read a[i] yields the element
\* a[(i + len(a)) mod len(a)]; for every other i it raises a value error.
C19_NegativeIndexing ==
    (Done /\ input.family = "array_read") =>
        IF -ArrLen <= ReadIdx /\ ReadIdx < ArrLen
        THEN /\ err = NilError
             /\ Printed = <<Elements(ArrLen)[((ReadIdx + ArrLen) % ArrLen) + 1]>>
        ELSE /\ err.k = "error" /\ err.cat = "value"
             /\ interp.stdout = <<>>

\* a negative index in range has been read
C19_Witness ==
    /\ Done /\ input.family = "array_read"
    /\ ArrLen = 3 /\ ReadIdx = -1
    /\ Printed = <<IntV(3)>>

\* C20: a[i] = v with 0 <= i < len(a) replaces element i of the existing
\* array and nothing else, and every other binding of the array (alias,
\* containing array, containing object) sees it; for a negative or too-large
\* i it raises a value error and leaves the array as it was.
C20_WriteInPlace ==
    (Done /\ input.family = "array_write") =>
        LET a == GlobalFrame["a"]
            arr == interp.arrays[a.ref]
        IN /\ GlobalFrame["b"] = a
           /\ interp.arrays[GlobalFrame["c"].ref] = <<a>>
           /\ interp.maps[GlobalFrame["o"].ref]["k"] = a
           /\ IF 0 <= WriteIdx /\ WriteIdx < ArrLen
              THEN /\ err = NilError
                   /\ arr = [Elements(ArrLen) EXCEPT ![WriteIdx + 1] = IntV(9)]
              ELSE /\ err.k = "error" /\ err.cat = "value"
                   /\ arr = Elements(ArrLen)

\* an element in range has been written and the alias sees it
C20_Witness ==
    /\ Done /\ input.family = "array_write"
    /\ ArrLen = 3 /\ WriteIdx = 1
    /\ interp.arrays[GlobalFrame["b"].ref] = <<IntV(1), IntV(9), IntV(3)>>


(***************************************************************************)
(* Division and modulo (part_004 77-99, 405-419).                          *)
(***************************************************************************)
\* the value of a numeric operand of the programs
NumOf(e) == IF e.n = "Unary" THEN IntV(-e.Operand.Value.i) ELSE e.Value
DivExpr == input.Statements[1].Expression.Arguments[1]

\* C21: a / b and a % b raise the value error "can't divide by zero" when b
\* is zero; otherwise they raise nothing, a / b yields the float a/b and
\* a % b yields the integer int(a) % int(b).
C21_DivideByZero ==
    (Done /\ input.family = "divmod") =>
        LET a == NumOf(DivExpr.Left)
            b == NumOf(DivExpr.Right)
        IN IF Num(b) = 0
           THEN /\ err = valueError("can't divide by zero")
                /\ interp.stdout = <<>>
           ELSE /\ err = NilError
                /\ Len(Printed) = 1
                /\ IF DivExpr.Operator = "DIVIDE"
                   THEN /\ Printed[1].t = "float"
                        /\ Printed[1].num * Den(a) * Num(b) = Num(a) * Den(b) * Printed[1].den
                   ELSE Printed[1] = IntV(GoRem(TruncDiv(Num(a), Den(a)), TruncDiv(Num(b), Den(b))))


(***************************************************************************)
(* Equality (part_004 110-190).                                            *)
(***************************************************************************)
\* C22: v == v evaluates to true and raises no error, for every value v of
\* the programs (none is a NaN).
C22_EqualReflexive ==
    (Done /\ input.family = "reflexive") =>
        /\ err = NilError
        /\ "r" \in DOMAIN GlobalFrame
        /\ GlobalFrame["r"] = BoolV(TRUE)


(***************************************************************************)
(* Truthiness (part_002 522-543) in the ternary and xor (part_004 525-535, *)
(* 571-577).                                                               *)
(***************************************************************************)
\* C23: a ternary takes its first branch exactly when its condition is
\* truthy, and xor is true exactly when one operand is truthy, where null,
\* false, 0, 0.0, "", [] and {} are falsy and every other value is truthy.
C23_TruthinessEverywhere ==
    (Done /\ input.family \in {"truthy_ternary", "truthy_xor"}) =>
        /\ err = NilError
        /\ "r" \in DOMAIN GlobalFrame
        /\ IF input.family = "truthy_ternary"
           THEN GlobalFrame["r"] = IntV(IF Truthy(input.Statements[1].Value) THEN 1 ELSE 2)
           ELSE GlobalFrame["r"] = BoolV(Truthy(input.Statements[1].Value)
                                         # Truthy(input.Statements[2].Value))


(***************************************************************************)
(* Precedence of the ternary (parser.go 298-342).                          *)
(***************************************************************************)
\* C24: `a OP b ? x : y` with OP one of or, xor, and parses as
\* `(a OP b) ? x : y`: the program is the one ParseProgram builds from the
\* source with the condition in parentheses, a Ternary whose Condition is
\* the whole Binary.
C24_TernaryLowest ==
    (input.family = "ternary_precedence" /\ pc # "parse") =>
        /\ pc = "done" => err = NilError
        /\ Len(prog) = 1
        /\ prog[1].Value.n = "Ternary"
        /\ prog[1].Value.Condition.n = "Binary"
        /\ prog = ParseProgram(input.Desugared).prog


(***************************************************************************)
(* Parameter lists (parser.go 255-283, functions.go 1020-1051).            *)
(***************************************************************************)
\* C25: a function whose parameter list names a twice is refused when it is
\* parsed or when it is called: the execution ends in an error and the call
\* f(1, 2) never binds its arguments and runs the body.
C25_DuplicateParamsRejected ==
    (Done /\ input.family = "dup_params") =>
        /\ err # NilError
        /\ interp.stats.UserCalls = 0


(***************************************************************************)
(* The token stream (part_006 358-446, 495-503).                           *)
(***************************************************************************)
\* C26: for every source, repeated calls of Tokenizer.Next return EOF after
\* finitely many calls, and every call after that returns EOF again.
C26_EOFTerminates == <>[](returned.tok = "EOF")


(***************************************************************************)
(* Loop control across calls (part_004 537-548, 752-830).                  *)
(***************************************************************************)
\* C27: a break or continue executed in the body of a function, outside
\* every loop of that body, is reported as an error although the call is
\* made inside a loop of the caller: Execute returns an error, and the
\* caller's loop is neither ended nor has an iteration cut short in silence.
C27_NoEscapeAcrossCall ==
    (Done /\ input.family = "call_escape") => err # NilError


(***************************************************************************)
(* The driver (part_007 122-182).                                          *)
(***************************************************************************)
\* C28: RunProgram never panics: for every source it returns (ok, console),
\* with ok = false and the error's message when ParseProgram or Execute
\* returned an error (one raised while main is auto-invoked included), and
\* ok = true with the output otherwise.
C28_DriverTotal ==
    input.kind = "source" =>
        /\ pc # "panicked"
        /\ pc = "returned" =>
              result = IF err = NilError
                       THEN [ok |-> TRUE, console |-> interp.stdout]
                       ELSE [ok |-> FALSE, console |-> ErrorString(err)]


(***************************************************************************)
(* Blocks opened with `:` (parser.go 112-137).                             *)
(***************************************************************************)
\* C29: a source that ends before the `end` of the `:` block of an if,
\* else, while, for, fun or catch is rejected by ParseProgram with a parse
\* error, and nothing of it is executed.
C29_UnclosedBlockRejected ==
    (input.family = "unclosed" /\ pc # "parse") =>
        /\ err.k = "parse"
        /\ prog = <<>>
        /\ interp.stats.Ops = 0


(***************************************************************************)
(* Repetition (part_004 356-403).                                          *)
(***************************************************************************)
\* the count N of a repetition program
RepeatCount ==
    LET e == input.Statements[2].Value
    IN IdxOf(IF e.Left.n = "Variable" THEN e.Right ELSE e.Left)

\* C30: s * n and n * s yield s repeated n times, a new value, when
\* n >= 0, and raise a value error when n < 0, for a string and for an
\* array s.
C30_RepeatSymmetric ==
    (Done /\ input.family = "repeat") =>
        LET x == input.Statements[1].Value
            n == RepeatCount
        IN IF n < 0
           THEN /\ err.k = "error" /\ err.cat = "value"
                /\ "r" \notin DOMAIN GlobalFrame
           ELSE /\ err = NilError
                /\ "r" \in DOMAIN GlobalFrame
                /\ IF x.n = "Literal"
                   THEN GlobalFrame["r"] = StrV(Repeat(x.Value.s, n))
                   ELSE /\ GlobalFrame["r"].t = "array"
                        /\ GlobalFrame["r"].ref # GlobalFrame["s"].ref
                        /\ interp.arrays[GlobalFrame["r"].ref] =
                               RepeatValues(Elements(Len(x.Values)), n)

====
